---- MODULE Spec2Model ----
(***************************************************************************)
(* A model of the canvas line-graph engine (src/src/line-graph.ts, class   *)
(* LineGraph).  The drawing context is modelled by its attributes (ctx)    *)
(* and by the log of primitive context calls issued by the operation that  *)
(* ran last (calls); ctx0 is the context that operation started from, err  *)
(* the exception it threw ("" for none) and out what it computed.  Numbers are JavaScript numbers restricted to values  *)
(* that IEEE doubles represent and combine exactly in the ranges used here *)
(* (small rationals), extended with NaN, +Infinity and -Infinity.          *)
(***************************************************************************)
EXTENDS Integers, Sequences, FiniteSets, TLC

VARIABLES width, height, ctx, ctx0, calls, err, op, out, pc, tick, ticks

vars == <<width, height, ctx, ctx0, calls, err, op, out, pc, tick, ticks>>

(***************************************************************************)
(* Bounds of the model.                                                    *)
(***************************************************************************)
MaxVal == 3
MaxTicks == 13
MaxPoints == 2
MaxTime == 2
MaxCurve == 3
MaxMarkers == 2
MaxPointsCount == 5

(***************************************************************************)
(* JavaScript numbers.  A number is [n, d]: the rational n/d when d > 0,   *)
(* and, when d = 0, +Infinity (n = 1), -Infinity (n = -1) or NaN (n = 0).  *)
(***************************************************************************)
RECURSIVE Gcd(_, _)
Gcd(a, b) == IF b = 0 THEN a ELSE Gcd(b, a % b)

AbsInt(a) == IF a < 0 THEN -a ELSE a

SignInt(a) == IF a > 0 THEN 1 ELSE IF a < 0 THEN -1 ELSE 0

NaN == [n |-> 0, d |-> 0]

PosInf == [n |-> 1, d |-> 0]

NegInf == [n |-> -1, d |-> 0]

\* The number n/d in lowest terms (d # 0).
Q(n, d) ==
  LET g == Gcd(AbsInt(n), AbsInt(d))
      s == IF d < 0 THEN -1 ELSE 1
  IN  [n |-> s * (n \div g), d |-> s * (d \div g)]

I(k) == [n |-> k, d |-> 1]

IsNaN(a) == a.d = 0 /\ a.n = 0

IsFinite(a) == a.d > 0

Neg(a) == [n |-> -a.n, d |-> a.d]

\* a + b
Add(a, b) ==
  IF IsNaN(a) \/ IsNaN(b) THEN NaN
  ELSE IF a.d = 0 /\ b.d = 0 THEN (IF a.n = b.n THEN a ELSE NaN)
  ELSE IF a.d = 0 THEN a
  ELSE IF b.d = 0 THEN b
  ELSE Q(a.n * b.d + b.n * a.d, a.d * b.d)

\* a - b
Sub(a, b) == Add(a, Neg(b))

\* a * b
Mul(a, b) ==
  IF IsNaN(a) \/ IsNaN(b) THEN NaN
  ELSE IF a.d = 0 \/ b.d = 0
    THEN (IF a.n = 0 \/ b.n = 0 THEN NaN
          ELSE [n |-> SignInt(a.n) * SignInt(b.n), d |-> 0])
  ELSE Q(a.n * b.n, a.d * b.d)

\* a / b; a zero divisor is the +0 that v - v produces.
Div(a, b) ==
  IF IsNaN(a) \/ IsNaN(b) THEN NaN
  ELSE IF a.d = 0 /\ b.d = 0 THEN NaN
  ELSE IF a.d = 0 THEN (IF b.n < 0 THEN Neg(a) ELSE a)
  ELSE IF b.d = 0 THEN I(0)
  ELSE IF b.n = 0 THEN [n |-> SignInt(a.n), d |-> 0]
  ELSE Q(a.n * b.d, a.d * b.n)

\* a < b; every comparison with NaN is false.
Lt(a, b) ==
  IF IsNaN(a) \/ IsNaN(b) THEN FALSE
  ELSE IF a.d = 0 /\ b.d = 0 THEN a.n < b.n
  ELSE IF a.d = 0 THEN a.n < 0
  ELSE IF b.d = 0 THEN b.n > 0
  ELSE a.n * b.d < b.n * a.d

\* a === b
Eq(a, b) == ~IsNaN(a) /\ ~IsNaN(b) /\ a = b

Le(a, b) == Lt(a, b) \/ Eq(a, b)

Gt(a, b) == Lt(b, a)

Ge(a, b) == Le(b, a)

\* Math.abs
Abs(a) == [n |-> AbsInt(a.n), d |-> a.d]

\* The integer floor of a finite number.
FloorInt(a) == a.n \div a.d

\* Math.round: the nearest integer, ties towards +Infinity.
Round(a) == IF IsFinite(a) THEN I(FloorInt(Add(a, Q(1, 2)))) ELSE a

Pow10(k) == IF k = 0 THEN 1 ELSE IF k = 1 THEN 10 ELSE 100

\* Number.prototype.toFixed(dp): the value of the printed decimal, ties
\* away from zero.
ToFixed(a, dp) ==
  IF ~IsFinite(a) THEN a
  ELSE LET m == Mul(Abs(a), I(Pow10(dp)))
           r == FloorInt(Add(m, Q(1, 2)))
       IN  Q(SignInt(a.n) * r, Pow10(dp))

(***************************************************************************)
(* Optional values.  An omitted numeric field is Absent, an omitted string *)
(* field is Undefined; an omitted font is NoFont and an omitted line dash  *)
(* is "none".                                                              *)
(***************************************************************************)
Absent == -1

Undefined == "undefined"

Font(px, family) == [px |-> px, family |-> family]

NoFont == Font(0, "")

\* A string drawn as it is, and a number printed by Math.round(..).toString()
\* (dp = Absent) or by toFixed(dp).
Str(s) == [s |-> s, v |-> I(0), dp |-> 0]

NumLabel(v, dp) == [s |-> "#", v |-> v, dp |-> dp]

NoOptions ==
  [color |-> "", lineWidth |-> 0, fillColor |-> "", font |-> NoFont,
   lineDash |-> "none", angle |-> 0]

(***************************************************************************)
(* The 2D context: its attributes, its transform and its save stack.       *)
(***************************************************************************)
Snapshot(c) ==
  [strokeStyle |-> c.strokeStyle, fillStyle |-> c.fillStyle,
   lineWidth |-> c.lineWidth, lineDash |-> c.lineDash, font |-> c.font,
   textAlign |-> c.textAlign, tx |-> c.tx, ty |-> c.ty, rot |-> c.rot]

CtxInit ==
  [strokeStyle |-> "#000000", fillStyle |-> "#000000", lineWidth |-> 1,
   lineDash |-> "[]", font |-> Font(10, "sans-serif"), textAlign |-> "start",
   tx |-> I(0), ty |-> I(0), rot |-> 0, stack |-> <<>>]

\* One primitive context call.
Call(name, x, y, text) == [op |-> name, x |-> x, y |-> y, text |-> text]

Call0(name) == Call(name, I(0), I(0), Str(""))

Call2(name, x, y) == Call(name, x, y, Str(""))

\* A context g = [a |-> attributes, log |-> calls issued so far, err |-> the
\* exception thrown so far]; once an exception is thrown nothing more runs.
Ctx(a) == [a |-> a, log |-> <<>>, err |-> ""]

Emit(g, c) == IF g.err # "" THEN g ELSE [g EXCEPT !.log = Append(@, c)]

\* ctx.save()
Save(g) ==
  Emit([g EXCEPT !.a.stack = Append(@, Snapshot(g.a))], Call0("save"))

\* A restore that pops the saved state and leaves the transform as it is.
RestoreKeepsTransform(g) ==
  Emit([g EXCEPT !.a.stack = IF @ = <<>> THEN @
                             ELSE SubSeq(@, 1, Len(@) - 1)],
       Call0("restore"))

\* ctx.restore()
Restore(g) ==
  LET st == g.a.stack
      top == st[Len(st)]
      a2 == IF st = <<>> THEN g.a
            ELSE [strokeStyle |-> top.strokeStyle, fillStyle |-> top.fillStyle,
                  lineWidth |-> top.lineWidth, lineDash |-> top.lineDash,
                  font |-> top.font, textAlign |-> top.textAlign,
                  tx |-> top.tx, ty |-> top.ty, rot |-> top.rot,
                  stack |-> SubSeq(st, 1, Len(st) - 1)]
  IN  Emit([g EXCEPT !.a = a2], Call0("restore"))

\* A measurement that takes the font of the engine's live context, whatever
\* context it is asked about.
MeasureTextAmbient(g, s) == I(Len(s) * (ctx.font.px \div 2))

\* ctx.measureText(text).width: every glyph is half the font size wide.
MeasureText(g, s) == I(Len(s) * (g.a.font.px \div 2))

\* A stroke style that falls back to the fresh context's values for the
\* fields the options omit.
ApplyStrokeReset(g, o) ==
  [g EXCEPT
     !.a.strokeStyle = IF o.color # "" THEN o.color ELSE CtxInit.strokeStyle,
     !.a.lineWidth = IF o.lineWidth # 0 THEN o.lineWidth
                     ELSE CtxInit.lineWidth,
     !.a.lineDash = IF o.lineDash # "none" THEN o.lineDash
                    ELSE CtxInit.lineDash]

\* if (options.color) ctx.strokeStyle = ..; if (options.lineWidth) ..;
\* if (options.lineDash) ctx.setLineDash(..)
ApplyStroke(g, o) ==
  [g EXCEPT
     !.a.strokeStyle = IF o.color # "" THEN o.color ELSE @,
     !.a.lineWidth = IF o.lineWidth # 0 THEN o.lineWidth ELSE @,
     !.a.lineDash = IF o.lineDash # "none" THEN o.lineDash ELSE @]

DrawLine(g, x1, y1, x2, y2, o) ==
  LET g1 == Emit(g, Call0("beginPath"))
      g2 == Emit(g1, Call2("moveTo", x1, y1))
      g3 == Emit(g2, Call2("lineTo", x2, y2))
  IN  Emit(ApplyStroke(g3, o), Call0("stroke"))

DrawText(g, text, x, y, o) ==
  IF o.angle # 0
  THEN LET g1 == Save(g)
           g2 == Emit([g1 EXCEPT !.a.tx = Add(@, x), !.a.ty = Add(@, y)],
                      Call2("translate", x, y))
           g3 == Emit([g2 EXCEPT !.a.rot = @ + o.angle],
                      Call2("rotate", I(o.angle), I(0)))
           g4 == [g3 EXCEPT
                    !.a.fillStyle = IF o.color # "" THEN o.color ELSE "black",
                    !.a.font = IF o.font # NoFont THEN o.font
                               ELSE Font(12, "Arial")]
           g5 == Emit(g4, Call("fillText", I(0), I(0), text))
       IN  Restore(g5)
  ELSE LET g1 == [g EXCEPT
                    !.a.font = IF o.font # NoFont THEN o.font ELSE @,
                    !.a.fillStyle = IF o.color # "" THEN o.color ELSE @]
       IN  Emit(g1, Call("fillText", x, y, text))

(***************************************************************************)
(* AxisOptions and its defaults.                                           *)
(***************************************************************************)
Opt(v, dflt) == IF v = Absent THEN dflt ELSE v

OptStr(v, dflt) == IF v = Undefined THEN dflt ELSE v

NoPadding ==
  [has |-> FALSE, top |-> Absent, bottom |-> Absent, left |-> Absent,
   right |-> Absent]

Padding(t, b, l, r) ==
  [has |-> TRUE, top |-> t, bottom |-> b, left |-> l, right |-> r]

NoScale ==
  [has |-> FALSE, min |-> I(0), max |-> I(0), step |-> I(0),
   decimalPlaces |-> Absent, showDecimals |-> FALSE, labelOffset |-> Absent]

Scale(mn, mx, st, dp, sd, lo) ==
  [has |-> TRUE, min |-> mn, max |-> mx, step |-> st, decimalPlaces |-> dp,
   showDecimals |-> sd, labelOffset |-> lo]

NoStyle == [has |-> FALSE, o |-> NoOptions]

Style(o) == [has |-> TRUE, o |-> o]

\* padding = { top: 50, bottom: 50, left: 50, right: 50 }, and 50 for each
\* side that a given padding omits.
PaddingOf(o) ==
  LET p == IF o.padding.has THEN o.padding ELSE Padding(50, 50, 50, 50)
  IN  [top |-> Opt(p.top, 50), bottom |-> Opt(p.bottom, 50),
       left |-> Opt(p.left, 50), right |-> Opt(p.right, 50)]

\* The defaults of drawAxes.
AxesParams(o) ==
  LET xs == IF o.xScale.has THEN o.xScale
            ELSE Scale(I(0), I(10), I(1), 0, FALSE, 10)
      ys == IF o.yScale.has THEN o.yScale
            ELSE Scale(I(0), I(10), I(1), 0, FALSE, 10)
      p == PaddingOf(o)
  IN  [fontSize |-> Opt(o.fontSize, 12),
       fontColor |-> OptStr(o.fontColor, "black"),
       font |-> OptStr(o.font, "Arial"),
       xLabel |-> OptStr(o.xLabel, ""),
       yLabel |-> OptStr(o.yLabel, ""),
       xAxisStyle |-> IF o.xAxisStyle.has THEN o.xAxisStyle.o
                      ELSE [NoOptions EXCEPT !.color = "black", !.lineWidth = 1],
       yAxisStyle |-> IF o.yAxisStyle.has THEN o.yAxisStyle.o
                      ELSE [NoOptions EXCEPT !.color = "black", !.lineWidth = 1],
       yPaddingTop |-> p.top, yPaddingBottom |-> p.bottom,
       xPaddingLeft |-> p.left, xPaddingRight |-> p.right,
       xMin |-> xs.min, xMax |-> xs.max, xStep |-> xs.step,
       xDecimalPlaces |-> Opt(xs.decimalPlaces, 0),
       xShowDecimals |-> xs.showDecimals,
       xLabelOffset |-> Opt(xs.labelOffset, 10),
       yMin |-> ys.min, yMax |-> ys.max, yStep |-> ys.step,
       yDecimalPlaces |-> Opt(ys.decimalPlaces, 0),
       yShowDecimals |-> ys.showDecimals,
       yLabelOffset |-> Opt(ys.labelOffset, 20)]

\* The defaults of the curve, interpolation and selector operations.
PlotParams(o) ==
  LET p == PaddingOf(o)
  IN  [xMin |-> IF o.xScale.has THEN o.xScale.min ELSE I(0),
       xMax |-> IF o.xScale.has THEN o.xScale.max ELSE I(1),
       yMin |-> IF o.yScale.has THEN o.yScale.min ELSE I(0),
       yMax |-> IF o.yScale.has THEN o.yScale.max ELSE I(1),
       yPaddingTop |-> p.top, yPaddingBottom |-> p.bottom,
       xPaddingLeft |-> p.left, xPaddingRight |-> p.right]

NoAxis ==
  [fontSize |-> Absent, fontColor |-> Undefined, font |-> Undefined,
   padding |-> NoPadding, xScale |-> NoScale, yScale |-> NoScale,
   xLabel |-> Undefined, yLabel |-> Undefined, xAxisStyle |-> NoStyle,
   yAxisStyle |-> NoStyle]

\* The operation that ran last, with its arguments.
NoOp ==
  [name |-> "none", axis |-> NoAxis, options |-> NoOptions, data |-> <<>>,
   markers |-> <<>>, padTop |-> 0, texts |-> <<"", "", "", "", "">>,
   fillColor |-> ""]

(***************************************************************************)
(* drawAxes.  The two tick loops run one iteration per step; tick is the   *)
(* loop variable and ticks the values for which a label has been drawn.    *)
(***************************************************************************)
\* xPos of the x tick loop.
XTickPos(P, x) ==
  Add(I(P.xPaddingLeft),
      Mul(Div(Sub(x, P.xMin), Sub(P.xMax, P.xMin)),
          I(width - P.xPaddingLeft - P.xPaddingRight)))

\* yPos of the y tick loop.
YTickPos(P, y) ==
  Sub(I(height - P.yPaddingBottom),
      Mul(Div(Sub(y, P.yMin), Sub(P.yMax, P.yMin)),
          I(height - P.yPaddingTop - P.yPaddingBottom)))

TickLabel(v, showDecimals, dp) ==
  IF showDecimals THEN NumLabel(ToFixed(v, dp), dp)
  ELSE NumLabel(Round(v), Absent)

TextStyle(color, font) == [NoOptions EXCEPT !.color = color, !.font = font]

\* The x tick loop with its bound excluded (x < xMax).
XLoopCondExclusive(P, x) == Lt(x, P.xMax)

\* for (let x = xMin; x <= xMax; ...)
XLoopCond(P, x) == Le(x, P.xMax)

\* for (let y = yMin; y <= yMax; ...)
YLoopCond(P, y) == Le(y, P.yMax)

\* x += xStep
XLoopNext(P, x) == Add(x, P.xStep)

\* y += yStep
YLoopNext(P, y) == Add(y, P.yStep)

\* The context and the log in the middle of an operation.
Running == [a |-> ctx, log |-> calls, err |-> err]

DrawAxesBegin(o) ==
  /\ pc = "idle"
  /\ LET P == AxesParams(o)
         g0 == Ctx(ctx)
         g1 == DrawLine(g0, I(P.xPaddingLeft), I(height - P.yPaddingBottom),
                        I(width - P.xPaddingRight),
                        I(height - P.yPaddingBottom), P.xAxisStyle)
         g2 == IF P.xLabel # ""
               THEN DrawText(g1, Str(P.xLabel), Q(width, 2),
                             Sub(I(height), Q(P.yPaddingBottom, 2)),
                             TextStyle(P.fontColor,
                                       Font(P.fontSize + 4, P.font)))
               ELSE g1
     IN  /\ ctx' = g2.a
         /\ calls' = g2.log
         /\ tick' = P.xMin
  /\ op' = [NoOp EXCEPT !.name = "drawAxes", !.axis = o]
  /\ pc' = "xTicks"
  /\ ticks' = [x |-> <<>>, y |-> <<>>]
  /\ ctx0' = ctx
  /\ UNCHANGED <<width, height, err, out>>

DrawAxesXTick ==
  /\ pc = "xTicks"
  /\ Len(ticks.x) < MaxTicks
  /\ LET P == AxesParams(op.axis)
     IN  /\ XLoopCond(P, tick)
         /\ LET g == DrawText(Running,
                              TickLabel(tick, P.xShowDecimals, P.xDecimalPlaces),
                              XTickPos(P, tick),
                              I(height - P.yPaddingBottom + P.fontSize
                                + P.xLabelOffset),
                              TextStyle(P.fontColor, Font(P.fontSize, P.font)))
            IN  ctx' = g.a /\ calls' = g.log
         /\ tick' = XLoopNext(P, tick)
  /\ ticks' = [ticks EXCEPT !.x = Append(@, tick)]
  /\ UNCHANGED <<width, height, ctx0, err, op, out, pc>>

DrawAxesYAxis ==
  /\ pc = "xTicks"
  /\ LET P == AxesParams(op.axis)
     IN  /\ ~XLoopCond(P, tick)
         /\ LET g1 == DrawLine(Running, I(P.xPaddingLeft),
                               I(P.yPaddingTop), I(P.xPaddingLeft),
                               I(height - P.yPaddingBottom), P.yAxisStyle)
                g2 == IF P.yLabel # ""
                      THEN DrawText(g1, Str(P.yLabel), Q(P.xPaddingLeft, 2),
                                    Q(height, 2),
                                    [TextStyle(P.fontColor,
                                               Font(P.fontSize + 4, P.font))
                                       EXCEPT !.angle = -90])
                      ELSE g1
            IN  ctx' = g2.a /\ calls' = g2.log
         /\ tick' = P.yMin
  /\ pc' = "yTicks"
  /\ UNCHANGED <<width, height, ctx0, err, op, out, ticks>>

DrawAxesYTick ==
  /\ pc = "yTicks"
  /\ Len(ticks.y) < MaxTicks
  /\ LET P == AxesParams(op.axis)
     IN  /\ YLoopCond(P, tick)
         /\ LET g == DrawText(Running,
                              TickLabel(tick, P.yShowDecimals, P.yDecimalPlaces),
                              I(P.xPaddingLeft - P.fontSize - P.yLabelOffset),
                              Add(YTickPos(P, tick), I(5)),
                              TextStyle(P.fontColor, Font(P.fontSize, P.font)))
            IN  ctx' = g.a /\ calls' = g.log
         /\ tick' = YLoopNext(P, tick)
  /\ ticks' = [ticks EXCEPT !.y = Append(@, tick)]
  /\ UNCHANGED <<width, height, ctx0, err, op, out, pc>>

DrawAxesReturn ==
  /\ pc = "yTicks"
  /\ ~YLoopCond(AxesParams(op.axis), tick)
  /\ pc' = "done"
  /\ UNCHANGED <<width, height, ctx, ctx0, calls, err, op, out, tick, ticks>>

(***************************************************************************)
(* Construction, and the arguments the operations are called with.         *)
(***************************************************************************)
Widths == {800, 140}

Heights == {500}

Init ==
  /\ width \in Widths
  /\ height \in Heights
  /\ ctx = CtxInit
  /\ ctx0 = CtxInit
  /\ calls = <<>>
  /\ err = ""
  /\ op = NoOp
  /\ out = <<>>
  /\ pc = "idle"
  /\ tick = I(0)
  /\ ticks = [x |-> <<>>, y |-> <<>>]

Steps == {I(-1), I(0), Q(1, 2), I(1), I(2)}

\* The scales drawAxes is called with: valid ones, degenerate ones
\* (max = min), reversed ones (max < min) and non-positive steps.
AxesScales ==
  {NoScale} \cup
  {Scale(I(mn), I(mx), st, Absent, FALSE, Absent) :
     mn \in 0..1, mx \in 0..MaxVal, st \in Steps}

LightGrey == [NoOptions EXCEPT !.color = "lightgrey", !.lineWidth = 1]

AxisVariants ==
  { NoAxis,
    [NoAxis EXCEPT !.fontSize = 10, !.fontColor = "lightgrey",
                   !.font = "Verdana", !.padding = Padding(50, 100, 100, 0),
                   !.xLabel = "Time", !.yLabel = "Elevation",
                   !.xAxisStyle = Style(LightGrey),
                   !.yAxisStyle = Style(LightGrey)],
    [NoAxis EXCEPT !.padding = Padding(Absent, Absent, 20, Absent),
                   !.yLabel = "Elevation"] }

WithDecimals(sc, sd) ==
  IF sc.has /\ sd THEN [sc EXCEPT !.showDecimals = TRUE, !.decimalPlaces = 1]
  ELSE sc

\* The scales the other axis has while one axis ranges over AxesScales.
FewScales ==
  {NoScale, Scale(I(0), I(2), I(1), Absent, FALSE, Absent),
   Scale(I(1), I(1), I(0), Absent, FALSE, Absent)}

AxesInputs ==
  {[v EXCEPT !.xScale = WithDecimals(sc[1], v.fontSize = Absent),
             !.yScale = WithDecimals(sc[2], v.fontSize # Absent)] :
     v \in AxisVariants,
     sc \in (AxesScales \X FewScales) \cup (FewScales \X AxesScales)}

\* The caller goes on to its next call: the record of the finished operation
\* is dropped, the context keeps what the operation left in it.
Forget ==
  /\ pc = "done"
  /\ pc' = "idle"
  /\ calls' = <<>>
  /\ op' = NoOp
  /\ tick' = I(0)
  /\ ticks' = [x |-> <<>>, y |-> <<>>]
  /\ ctx0' = ctx
  /\ err' = ""
  /\ out' = <<>>
  /\ UNCHANGED <<width, height, ctx>>

DrawAxes ==
  \/ pc = "idle" /\ \E o \in AxesInputs : DrawAxesBegin(o)
  \/ DrawAxesXTick
  \/ DrawAxesYAxis
  \/ DrawAxesYTick
  \/ DrawAxesReturn

NextAxes == DrawAxes \/ Forget

SpecAxes == Init /\ [][NextAxes]_vars

(***************************************************************************)
(* Properties of drawAxes.                                                 *)
(***************************************************************************)
XTicksComplete == op.name = "drawAxes" /\ pc \in {"yTicks", "done"}

YTicksComplete == op.name = "drawAxes" /\ pc = "done"

ValidScale(mn, mx, st) == Gt(mx, mn) /\ Gt(st, I(0))

\* vals are the ticks of a valid scale: floor((max-min)/step) + 1 of them,
\* from min to the largest min + k*step that does not exceed max.
TicksOfScale(vals, mn, mx, st) ==
  LET k == FloorInt(Div(Sub(mx, mn), st))
  IN  /\ Len(vals) = k + 1
      /\ vals[1] = mn
      /\ vals[Len(vals)] = Add(mn, Mul(I(k), st))
      /\ Le(vals[Len(vals)], mx)
      /\ Gt(Add(vals[Len(vals)], st), mx)

NumberLabels(log) ==
  Cardinality({i \in 1..Len(log) :
                 log[i].op = "fillText" /\ log[i].text.s = "#"})

\* C1: once a tick loop of drawAxes has ended on a scale with max > min and
\* step > 0, it has drawn floor((max-min)/step) + 1 tick labels, the first
\* for min and the last for the largest value <= max reached by adding step
\* to min; every tick label is one fillText of the context.
C1_TickCount ==
  LET P == AxesParams(op.axis)
  IN  /\ (XTicksComplete /\ ValidScale(P.xMin, P.xMax, P.xStep))
           => TicksOfScale(ticks.x, P.xMin, P.xMax, P.xStep)
      /\ (YTicksComplete /\ ValidScale(P.yMin, P.yMax, P.yStep))
           => TicksOfScale(ticks.y, P.yMin, P.yMax, P.yStep)
      /\ op.name = "drawAxes"
           => NumberLabels(calls) = Len(ticks.x) + Len(ticks.y)

\* drawAxes has returned for two valid scales, the x ticks stopping short of
\* xMax (step 2 from 0 to 3) and several y ticks drawn.
C1_Witness ==
  LET P == AxesParams(op.axis)
  IN  /\ YTicksComplete
      /\ ValidScale(P.xMin, P.xMax, P.xStep)
      /\ ValidScale(P.yMin, P.yMax, P.yStep)
      /\ ticks.x = <<I(0), I(2)>> /\ P.xMax = I(3)
      /\ Len(ticks.y) = 3

\* C2: a tick loop of drawAxes whose scale has step <= 0 draws no tick.
C2_NoTickWhenStepNotPositive ==
  LET P == AxesParams(op.axis)
  IN  op.name = "drawAxes"
        => /\ Le(P.xStep, I(0)) => ticks.x = <<>>
           /\ Le(P.yStep, I(0)) => ticks.y = <<>>

(***************************************************************************)
(* connectDataPoints and fillAreaUnderCurve.                               *)
(***************************************************************************)
Point(t, e) == [time |-> t, elevation |-> e]

XScaleFactor(P) ==
  Div(I(width - P.xPaddingLeft - P.xPaddingRight), Sub(P.xMax, P.xMin))

YScaleFactor(P) ==
  Div(I(height - P.yPaddingTop - P.yPaddingBottom), Sub(P.yMax, P.yMin))

\* x of a data point
CurveX(P, t) == Add(I(P.xPaddingLeft), Mul(Sub(t, P.xMin), XScaleFactor(P)))

\* A vertical mapping that grows with the elevation.
CurveYUnflipped(P, e) ==
  Add(I(P.yPaddingTop), Mul(Sub(e, P.yMin), YScaleFactor(P)))

\* y of a data point
CurveY(P, e) ==
  Sub(I(height - P.yPaddingBottom), Mul(Sub(e, P.yMin), YScaleFactor(P)))

\* The path operation for the point at index i (from 1): every point is
\* joined by lineTo.
PathOpAllLines(i) == "lineTo"

\* if (index === 0) moveTo else lineTo
PathOp(i) == IF i = 1 THEN "moveTo" ELSE "lineTo"

\* data.forEach of connectDataPoints, from the point at index i on.
RECURSIVE ConnectFrom(_, _, _, _)
ConnectFrom(g, P, data, i) ==
  IF i > Len(data) THEN g
  ELSE ConnectFrom(Emit(g, Call2(PathOp(i), CurveX(P, data[i].time),
                                 CurveY(P, data[i].elevation))),
                   P, data, i + 1)

ConnectPath(g, P, data, o) ==
  LET g1 == Emit(g, Call0("beginPath"))
      g2 == ConnectFrom(g1, P, data, 1)
  IN  Emit(ApplyStroke(g2, o), Call0("stroke"))

\* data.forEach of fillAreaUnderCurve, from the point at index i on.
RECURSIVE FillFrom(_, _, _, _)
FillFrom(g, P, data, i) ==
  IF i > Len(data) THEN g
  ELSE FillFrom(Emit(g, Call2("lineTo", CurveX(P, data[i].time),
                              CurveY(P, data[i].elevation))),
                P, data, i + 1)

\* The fill path left open on the right: no descent to the baseline below
\* the last point.
FillPathNoDescent(g, P, data, fillColor) ==
  LET g1 == Emit(g, Call0("beginPath"))
      g2 == Emit(g1, Call2("moveTo", CurveX(P, data[1].time),
                           I(height - P.yPaddingBottom)))
      g3 == FillFrom(g2, P, data, 1)
      g5 == Emit(g3, Call0("closePath"))
  IN  Emit([g5 EXCEPT !.a.fillStyle = fillColor], Call0("fill"))

FillPath(g, P, data, fillColor) ==
  LET g1 == Emit(g, Call0("beginPath"))
      g2 == Emit(g1, Call2("moveTo", CurveX(P, data[1].time),
                           I(height - P.yPaddingBottom)))
      g3 == FillFrom(g2, P, data, 1)
      g4 == Emit(g3, Call2("lineTo", CurveX(P, data[Len(data)].time),
                           I(height - P.yPaddingBottom)))
      g5 == Emit(g4, Call0("closePath"))
  IN  Emit([g5 EXCEPT !.a.fillStyle = fillColor], Call0("fill"))

\* fillAreaUnderCurve without its first line: data[0] of an empty array is
\* undefined, and reading its time throws.
FillAreaUnguarded(g, P, data, fillColor) ==
  IF Len(data) = 0
  THEN [Emit(g, Call0("beginPath")) EXCEPT !.err = "TypeError"]
  ELSE FillPath(g, P, data, fillColor)

FillArea(g, P, data, fillColor) ==
  IF Len(data) = 0 THEN g ELSE FillPath(g, P, data, fillColor)

\* The parameters of the earlier connectDataPoints(data, xPadding, yPadding,
\* options, xScale, yScale).
EarlierParams(xPadding, yPadding, xs, ys) ==
  [xMin |-> xs.min, xMax |-> xs.max, yMin |-> ys.min, yMax |-> ys.max,
   yPaddingTop |-> yPadding, yPaddingBottom |-> yPadding,
   xPaddingLeft |-> xPadding, xPaddingRight |-> xPadding]

Finish(g, name, o) ==
  /\ ctx' = g.a
  /\ calls' = g.log
  /\ err' = g.err
  /\ ctx0' = ctx
  /\ op' = [o EXCEPT !.name = name]
  /\ pc' = "done"
  /\ UNCHANGED <<width, height, tick, ticks>>

ConnectDataPoints(data, axis, o) ==
  /\ pc = "idle"
  /\ Finish(ConnectPath(Ctx(ctx), PlotParams(axis), data, o),
            "connectDataPoints",
            [NoOp EXCEPT !.data = data, !.axis = axis, !.options = o])
  /\ out' = <<>>

ConnectDataPointsEarlier(data, xPadding, yPadding, o, xs, ys) ==
  /\ pc = "idle"
  /\ Finish(ConnectPath(Ctx(ctx), EarlierParams(xPadding, yPadding, xs, ys),
                        data, o),
            "connectDataPointsEarlier",
            [NoOp EXCEPT !.data = data, !.options = o,
                         !.axis = [NoAxis EXCEPT
                                     !.padding = Padding(yPadding, yPadding,
                                                         xPadding, xPadding),
                                     !.xScale = xs, !.yScale = ys]])
  /\ out' = <<>>

FillAreaUnderCurve(data, axis, fillColor) ==
  /\ pc = "idle"
  /\ Finish(FillArea(Ctx(ctx), PlotParams(axis), data,
                     OptStr(fillColor, "rgba(0, 0, 0, 0.15)")),
            "fillAreaUnderCurve",
            [NoOp EXCEPT !.data = data, !.axis = axis,
                         !.fillColor = fillColor])
  /\ out' = <<>>

Elevations == {0, 1}

Points == {Point(I(t), I(e)) : t \in 0..MaxTime, e \in Elevations}

\* The curve [(0,10),(10,20)].
RisingCurve == <<Point(I(0), I(10)), Point(I(10), I(20))>>

CurveData ==
  UNION {[1..n -> Points] : n \in 0..MaxPoints} \cup {RisingCurve}

\* Axis options of the plotting operations: all defaults, the host
\* component's, some sides of the padding omitted with degenerate scales,
\* and a padding larger than the surface.
PlotAxes ==
  { NoAxis,
    [NoAxis EXCEPT !.padding = Padding(50, 100, 100, 0),
                   !.xScale = Scale(I(0), I(10), I(1), Absent, FALSE, Absent),
                   !.yScale = Scale(I(0), I(20), I(5), Absent, FALSE, Absent)],
    [NoAxis EXCEPT !.padding = Padding(Absent, 20, Absent, 10),
                   !.xScale = Scale(I(1), I(1), I(1), Absent, FALSE, Absent),
                   !.yScale = Scale(I(0), I(0), I(1), Absent, FALSE, Absent)],
    [NoAxis EXCEPT !.padding = Padding(300, 300, 100, 100),
                   !.xScale = Scale(I(0), I(MaxTime), I(1), Absent, FALSE,
                                    Absent),
                   !.yScale = Scale(I(0), I(1), I(1), Absent, FALSE,
                                    Absent)] }

CurveOptions ==
  {NoOptions,
   [NoOptions EXCEPT !.color = "red", !.lineWidth = 2, !.lineDash = "[5,5]"]}

FillColors == {Undefined, "rgba(80, 80, 80, 0.25)"}

NextCurve ==
  \/ pc = "idle" /\ \E data \in CurveData, axis \in PlotAxes,
                        o \in CurveOptions :
       ConnectDataPoints(data, axis, o)
  \/ pc = "idle" /\ \E data \in CurveData, axis \in PlotAxes,
                        o \in CurveOptions :
       ConnectDataPointsEarlier(data, PaddingOf(axis).left,
                                PaddingOf(axis).bottom, o,
                                Scale(PlotParams(axis).xMin,
                                      PlotParams(axis).xMax, I(1), Absent,
                                      FALSE, Absent),
                                Scale(PlotParams(axis).yMin,
                                      PlotParams(axis).yMax, I(1), Absent,
                                      FALSE, Absent))
  \/ pc = "idle" /\ \E data \in CurveData, axis \in PlotAxes,
                        c \in FillColors :
       FillAreaUnderCurve(data, axis, c)
  \/ Forget

SpecCurve == Init /\ [][NextCurve]_vars

(***************************************************************************)
(* Properties of connectDataPoints and fillAreaUnderCurve.  TransformX and *)
(* TransformY are the coordinate transform as the specification states it. *)
(***************************************************************************)
TransformX(P, v) ==
  Add(I(P.xPaddingLeft),
      Mul(Div(Sub(v, P.xMin), Sub(P.xMax, P.xMin)),
          I((width - P.xPaddingRight) - P.xPaddingLeft)))

TransformY(P, v) ==
  Sub(I(height - P.yPaddingBottom),
      Mul(Div(Sub(v, P.yMin), Sub(P.yMax, P.yMin)),
          I((height - P.yPaddingBottom) - P.yPaddingTop)))

Baseline(P) == I(height - P.yPaddingBottom)

ValidPlot(P) == Gt(P.xMax, P.xMin) /\ Gt(P.yMax, P.yMin)

\* The transformed points of data, the first reached by first and the others
\* by lineTo.
Vertices(P, data, first) ==
  [i \in 1..Len(data) |->
     Call2(IF i = 1 THEN first ELSE "lineTo", TransformX(P, data[i].time),
           TransformY(P, data[i].elevation))]

\* C5: fillAreaUnderCurve on a non-empty sequence issues exactly beginPath,
\* moveTo (x(first time), baseline), one lineTo per point in input order,
\* lineTo (x(last time), baseline), closePath and fill, where baseline =
\* height - paddingBottom.
C5_FillPath ==
  LET P == PlotParams(op.axis)
      n == Len(op.data)
  IN  (op.name = "fillAreaUnderCurve" /\ n > 0)
        => calls =
             <<Call0("beginPath"),
               Call2("moveTo", TransformX(P, op.data[1].time), Baseline(P))>>
             \o Vertices(P, op.data, "lineTo")
             \o <<Call2("lineTo", TransformX(P, op.data[n].time), Baseline(P)),
                  Call0("closePath"), Call0("fill")>>

\* The curve [(0,10),(10,20)] has been filled on the scales 0..10 and 0..20
\* of an 800 x 500 surface: its four vertices are distinct finite points.
C5_Witness ==
  /\ op.name = "fillAreaUnderCurve"
  /\ op.data = RisingCurve
  /\ ValidPlot(PlotParams(op.axis))
  /\ Len(calls) = 7
  /\ calls[2] = Call2("moveTo", I(100), I(400))
  /\ calls[3] = Call2("lineTo", I(100), I(225))
  /\ calls[4] = Call2("lineTo", I(800), I(50))
  /\ calls[5] = Call2("lineTo", I(800), I(400))

\* C6: connectDataPoints (both versions) on n points issues beginPath, then
\* for n >= 1 one moveTo to the first transformed point and n-1 lineTo to
\* the others in input order, then stroke; for n = 0 no moveTo and no lineTo.
C6_ConnectPath ==
  LET P == IF op.name = "connectDataPoints" THEN PlotParams(op.axis)
           ELSE EarlierParams(op.axis.padding.left, op.axis.padding.top,
                              op.axis.xScale, op.axis.yScale)
  IN  op.name \in {"connectDataPoints", "connectDataPointsEarlier"}
        => /\ calls = <<Call0("beginPath")>> \o Vertices(P, op.data, "moveTo")
                        \o <<Call0("stroke")>>
           /\ Cardinality({i \in 1..Len(calls) : calls[i].op = "moveTo"})
                = (IF Len(op.data) = 0 THEN 0 ELSE 1)
           /\ Cardinality({i \in 1..Len(calls) : calls[i].op = "lineTo"})
                = (IF Len(op.data) = 0 THEN 0 ELSE Len(op.data) - 1)

\* Two distinct points have been connected on valid scales.
C6_Witness ==
  /\ op.name = "connectDataPoints"
  /\ Len(op.data) = 2
  /\ ValidPlot(PlotParams(op.axis))
  /\ calls[2].op = "moveTo" /\ calls[3].op = "lineTo"
  /\ calls[2].x # calls[3].x /\ calls[2].y # calls[3].y

\* C7: fillAreaUnderCurve on an empty sequence issues no context call,
\* leaves the context as it found it and throws nothing.
C7_FillEmptyNoOp ==
  (op.name = "fillAreaUnderCurve" /\ op.data = <<>>)
    => calls = <<>> /\ ctx = ctx0 /\ err = ""

\* An empty sequence has been filled under degenerate scales, on a context
\* whose fillStyle an earlier fill had set.
C7_Witness ==
  /\ op.name = "fillAreaUnderCurve"
  /\ op.data = <<>>
  /\ ~ValidPlot(PlotParams(op.axis))
  /\ op.fillColor = Undefined
  /\ ctx0.fillStyle = "rgba(80, 80, 80, 0.25)"

(***************************************************************************)
(* drawVerticalLineToTrajectoryWithLimits.                                 *)
(***************************************************************************)
\* x of a marker
PlotX(P, t) ==
  Add(I(P.xPaddingLeft),
      Mul(Div(Sub(t, P.xMin), Sub(P.xMax, P.xMin)),
          I(width - P.xPaddingLeft - P.xPaddingRight)))

\* The scan condition with the curve point's time strictly later.
CoversStrictly(point, marker) == Gt(point.time, marker.time)

\* if (lineLimit[i].time >= marker.time)
Covers(point, marker) == Ge(point.time, marker.time)

\* A scan that starts at index 2, leaving out the first segment.
RECURSIVE ScanFromSecondSegment(_, _, _)
ScanFromSecondSegment(lineLimit, marker, k) ==
  IF k > Len(lineLimit) THEN 0
  ELSE IF k > 2 /\ Covers(lineLimit[k], marker) THEN k - 1
  ELSE ScanFromSecondSegment(lineLimit, marker, k + 1)

\* for (let i = 1; i < lineLimit.length; i++) with its break: the index i at
\* which the scan stops, counted as the code counts (from 0), and 0 when it
\* runs to the end.  k is the position in the sequence, i + 1.
RECURSIVE ScanFrom(_, _, _)
ScanFrom(lineLimit, marker, k) ==
  IF k > Len(lineLimit) THEN 0
  ELSE IF Covers(lineLimit[k], marker) THEN k - 1
  ELSE ScanFrom(lineLimit, marker, k + 1)

\* interpolatedY of the segment that ends at index i.
InterpolatedY(lineLimit, marker, i) ==
  LET point1 == lineLimit[i]
      point2 == lineLimit[i + 1]
      t == Div(Sub(marker.time, point1.time), Sub(point2.time, point1.time))
  IN  Add(point1.elevation, Mul(t, Sub(point2.elevation, point1.elevation)))

\* yLimit for an interpolated elevation
YLimit(P, interpolatedY) ==
  Sub(I(height - P.yPaddingBottom),
      Mul(Div(Sub(interpolatedY, P.yMin), Sub(P.yMax, P.yMin)),
          I(height - P.yPaddingTop - P.yPaddingBottom)))

\* The body of markersPoints.forEach without the test of yLimit: a null
\* yLimit reaches lineTo, which reads it as 0.
MarkerLineUnchecked(g, P, marker, lineLimit, o) ==
  LET i == ScanFrom(lineLimit, marker, 2)
      x == PlotX(P, marker.time)
  IN  DrawLine(g, x, I(height - P.yPaddingBottom), x,
               IF i = 0 THEN I(0)
               ELSE YLimit(P, InterpolatedY(lineLimit, marker, i)), o)

\* The body of markersPoints.forEach.
MarkerLine(g, P, marker, lineLimit, o) ==
  LET i == ScanFrom(lineLimit, marker, 2)
      x == PlotX(P, marker.time)
  IN  IF i = 0 THEN g
      ELSE DrawLine(g, x, I(height - P.yPaddingBottom), x,
                    YLimit(P, InterpolatedY(lineLimit, marker, i)), o)

RECURSIVE MarkersFrom(_, _, _, _, _, _)
MarkersFrom(g, P, markers, lineLimit, o, k) ==
  IF k > Len(markers) THEN g
  ELSE MarkersFrom(MarkerLine(g, P, markers[k], lineLimit, o), P, markers,
                   lineLimit, o, k + 1)

\* What the scan found for each marker: the index it stopped at (0: none)
\* and the elevation interpolated there.
Interpolations(markers, lineLimit) ==
  [k \in 1..Len(markers) |->
     LET i == ScanFrom(lineLimit, markers[k], 2)
     IN  [seg |-> i,
          elevation |-> IF i = 0 THEN NaN
                        ELSE InterpolatedY(lineLimit, markers[k], i)]]

DrawVerticalLineToTrajectoryWithLimits(markers, lineLimit, axis, o) ==
  /\ pc = "idle"
  /\ Finish(MarkersFrom(Ctx(ctx), PlotParams(axis), markers, lineLimit, o, 1),
            "drawVerticalLineToTrajectoryWithLimits",
            [NoOp EXCEPT !.markers = markers, !.data = lineLimit,
                         !.axis = axis, !.options = o])
  /\ out' = Interpolations(markers, lineLimit)

IsSorted(data) ==
  \A i \in 1..(Len(data) - 1) : Le(data[i].time, data[i + 1].time)

\* The reference curve [(0,0),(10,100)] and the marker at time 5.
Ramp == <<Point(I(0), I(0)), Point(I(10), I(100))>>

MarkerAtFive == <<Point(I(5), I(0))>>

\* Reference curves: those in non-decreasing time order, and two that are
\* not.
ReferenceCurves ==
  {c \in UNION {[1..n -> Points] : n \in 0..MaxCurve} : IsSorted(c)}
  \cup {Ramp,
        <<Point(I(2), I(0)), Point(I(0), I(1))>>,
        <<Point(I(1), I(1)), Point(I(2), I(0)), Point(I(0), I(1))>>}

IsIncreasing(data) ==
  \A i \in 1..(Len(data) - 1) : Lt(data[i].time, data[i + 1].time)

\* Marker lists: in increasing time order, as the host sorts them, up to one
\* time unit beyond the curves; and two lists that are not.
MarkerSets ==
  {m \in UNION {[1..n -> {Point(I(t), I(0)) : t \in 0..(MaxTime + 1)}] :
                  n \in 0..MaxMarkers} : IsIncreasing(m)}
  \cup {MarkerAtFive,
        <<Point(I(3), I(0)), Point(I(1), I(0))>>,
        <<Point(I(1), I(0)), Point(I(1), I(0))>>}

\* Axis options of the interpolation: the host component's padding with
\* scales that hold the curves, and all defaults.
InterpolationAxes ==
  { NoAxis,
    [NoAxis EXCEPT !.padding = Padding(50, 100, 100, 0),
                   !.xScale = Scale(I(0), I(10), I(1), Absent, FALSE, Absent),
                   !.yScale = Scale(I(0), I(100), I(10), Absent, FALSE,
                                    Absent)] }

LimitOptions ==
  {[NoOptions EXCEPT !.color = "yellow", !.lineWidth = 1,
                     !.lineDash = "[5,5]"]}

NextInterpolation ==
  \/ pc = "idle" /\ \E markers \in MarkerSets, lineLimit \in ReferenceCurves,
                        axis \in InterpolationAxes, o \in LimitOptions :
       DrawVerticalLineToTrajectoryWithLimits(markers, lineLimit, axis, o)
  \/ Forget

\* An engine on the host component's 800 x 500 surface.
InitHost == Init /\ width = 800

SpecInterpolation == InitHost /\ [][NextInterpolation]_vars

(***************************************************************************)
(* Properties of drawVerticalLineToTrajectoryWithLimits.                   *)
(***************************************************************************)
Interpolating == op.name = "drawVerticalLineToTrajectoryWithLimits"

\* The indexes i >= 1 (counted from 0) of the curve points at or after the
\* marker's time.
CoveringIndexes(curve, marker) ==
  {i \in 1..(Len(curve) - 1) : Ge(curve[i + 1].time, marker.time)}

Least(S) == CHOOSE i \in S : \A j \in S : i <= j

HasLine(marker) == CoveringIndexes(op.data, marker) # {}

\* e0 + (marker.time - t0)/(t1 - t0) * (e1 - e0) on the segment [i-1, i].
SegmentElevation(curve, marker, i) ==
  LET t0 == curve[i].time
      e0 == curve[i].elevation
      t1 == curve[i + 1].time
      e1 == curve[i + 1].elevation
  IN  Add(e0, Mul(Div(Sub(marker.time, t0), Sub(t1, t0)), Sub(e1, e0)))

\* The tops of the lines drawn, in the order drawn.
LineTops == SelectSeq(calls, LAMBDA c : c.op = "lineTo")

\* C3: for each marker with a point of the reference curve at index i >= 1
\* at or after its time, the segment used ends at the first such index, the
\* elevation used is e0 + (marker.time - t0)/(t1 - t0) * (e1 - e0) on that
\* segment, and the line drawn for it ends at that elevation's pixel; the
\* curve [(0,0),(10,100)] and a marker at time 5 give elevation 50.
C3_Interpolation ==
  LET P == PlotParams(op.axis)
      drawn == SelectSeq(op.markers, HasLine)
  IN  Interpolating
        => /\ \A k \in 1..Len(op.markers) :
                HasLine(op.markers[k])
                  => LET i == Least(CoveringIndexes(op.data, op.markers[k]))
                     IN  /\ out[k].seg = i
                         /\ out[k].elevation
                              = SegmentElevation(op.data, op.markers[k], i)
           /\ Len(LineTops) = Len(drawn)
           /\ \A j \in 1..Len(drawn) :
                LineTops[j]
                  = Call2("lineTo", TransformX(P, drawn[j].time),
                          TransformY(P,
                            SegmentElevation(op.data, drawn[j],
                              Least(CoveringIndexes(op.data, drawn[j])))))
           /\ (op.data = Ramp /\ op.markers = MarkerAtFive)
                => out[1].elevation = I(50)

\* The marker at time 5 has been drawn against [(0,0),(10,100)] on the
\* scales 0..10 and 0..100: its line rises from the baseline to elevation 50.
C3_Witness ==
  /\ Interpolating
  /\ op.data = Ramp
  /\ op.markers = MarkerAtFive
  /\ op.axis.xScale.has
  /\ out = <<[seg |-> 1, elevation |-> I(50)]>>
  /\ calls = <<Call0("beginPath"), Call2("moveTo", I(450), I(400)),
               Call2("lineTo", I(450), I(225)), Call0("stroke")>>

\* A marker later than every point of the reference curve.
Beyond(marker) ==
  \A i \in 1..Len(op.data) : Gt(marker.time, op.data[i].time)

NotBeyond(marker) == ~Beyond(marker)

\* The k-th group of four calls of the log.
LineCalls(k) == SubSeq(calls, 4 * k - 3, 4 * k)

\* C4: markers later than every point of the reference curve cause no
\* drawLine and no error, and the call issues the context calls, and leaves
\* the context, that the same call without those markers does: one line for
\* each remaining marker that has a segment, in marker order.
C4_MarkerBeyondCurveSkipped ==
  LET P == PlotParams(op.axis)
      kept == SelectSeq(op.markers, NotBeyond)
      drawn == SelectSeq(kept, HasLine)
      alone == MarkersFrom(Ctx(ctx0), P, kept, op.data, op.options, 1)
  IN  Interpolating
        => /\ err = ""
           /\ Len(calls) = 4 * Len(drawn)
           /\ \A k \in 1..Len(drawn) :
                /\ LineCalls(k)[1] = Call0("beginPath")
                /\ LineCalls(k)[2].op = "moveTo"
                /\ LineCalls(k)[2].x = TransformX(P, drawn[k].time)
                /\ LineCalls(k)[3].op = "lineTo"
                /\ LineCalls(k)[3].x = TransformX(P, drawn[k].time)
                /\ LineCalls(k)[4] = Call0("stroke")
           /\ calls = alone.log
           /\ ctx = alone.a

\* Of two markers the first lies beyond the reference curve and the second
\* within it: one line has been drawn, for the second.
C4_Witness ==
  /\ Interpolating
  /\ Len(op.markers) = 2
  /\ Beyond(op.markers[1])
  /\ HasLine(op.markers[2])
  /\ Len(op.data) = 3
  /\ Len(calls) = 4
  /\ calls[2].x = TransformX(PlotParams(op.axis), op.markers[2].time)

(***************************************************************************)
(* drawSelectors and drawSelectorsAndIndicators.                           *)
(***************************************************************************)
BarHeight == 20

BarWidth == 10

VerticalBarWidth == 2

TextPadding == 5

TextHeight == 12

\* xPositions = initialPoints.map(..)
XPositions(P, points) ==
  [k \in 1..Len(points) |-> PlotX(P, points[k].time)]

\* const [x1, x2] = xPositions: a missing element is undefined, which every
\* arithmetic operation turns into NaN.
ElementOf(xs, k) == IF k <= Len(xs) THEN xs[k] ELSE NaN

\* Selectors whose horizontal bars all face right.
RECURSIVE GlyphsFacingRight(_, _, _, _, _, _)
GlyphsFacingRight(g, P, xs, padTop, o, k) ==
  IF k > Len(xs) THEN g
  ELSE LET x == xs[k]
           verticalBarYStart == height - P.yPaddingBottom + padTop
           g1 == DrawLine(g, x, I(verticalBarYStart), x,
                          I(verticalBarYStart + BarHeight), o)
           g2 == DrawLine(g1, x, I(verticalBarYStart + BarHeight \div 2),
                          Add(x, I(BarWidth)),
                          I(verticalBarYStart + BarHeight \div 2), o)
       IN  GlyphsFacingRight(g2, P, xs, padTop, o, k + 1)

\* xPositions.forEach: the vertical bar and the horizontal bar of each
\* selector, from the one at position k on.
RECURSIVE GlyphsFrom(_, _, _, _, _, _)
GlyphsFrom(g, P, xs, padTop, o, k) ==
  IF k > Len(xs) THEN g
  ELSE LET x == xs[k]
           verticalBarYStart == height - P.yPaddingBottom + padTop
           verticalBarYEnd == height - P.yPaddingBottom + BarHeight + padTop
           horizontalBarDirection == IF k = 1 THEN 1 ELSE -1
           horizontalBarXEnd == Add(x, I(horizontalBarDirection * BarWidth))
           horizontalBarY == verticalBarYStart + BarHeight \div 2
           g1 == DrawLine(g, x, I(verticalBarYStart), x, I(verticalBarYEnd), o)
           g2 == DrawLine(g1, x, I(horizontalBarY), horizontalBarXEnd,
                          I(horizontalBarY), o)
       IN  GlyphsFrom(g2, P, xs, padTop, o, k + 1)

Placed(x, rule) == [x |-> x, rule |-> rule]

NotPlaced == Placed(I(0), "none")

\* (x1 + x2) / 2 - textWidth / 2
Centred(x1, x2, textWidth) ==
  Sub(Div(Add(x1, x2), I(2)), Div(textWidth, I(2)))

\* The text position of drawSelectors with no last branch: textX stays
\* undefined when the text fits nowhere.
SelectorTextNoFallback(P, x1, x2, textWidth) ==
  LET spaceBetweenSelectors ==
        Sub(Abs(Sub(x2, x1)), I((BarWidth + VerticalBarWidth + 5) * 2))
  IN  IF Gt(spaceBetweenSelectors, textWidth)
      THEN Placed(Centred(x1, x2, textWidth), "between")
      ELSE IF Ge(Sub(Sub(Sub(I(width), x2), I(P.xPaddingRight)),
                     I(VerticalBarWidth)), textWidth)
      THEN Placed(Add(Add(x2, I(VerticalBarWidth)), I(5)), "right")
      ELSE IF Ge(Sub(Sub(x1, I(P.xPaddingLeft)), I(VerticalBarWidth)),
                 textWidth)
      THEN Placed(Sub(Sub(Sub(x1, textWidth), I(VerticalBarWidth)), I(5)),
                  "left")
      ELSE Placed(NaN, "fallback")

\* The text position of drawSelectors with the right-hand side tried first.
SelectorTextRightFirst(P, x1, x2, textWidth) ==
  LET spaceBetweenSelectors ==
        Sub(Abs(Sub(x2, x1)), I((BarWidth + VerticalBarWidth + 5) * 2))
  IN  IF Ge(Sub(Sub(Sub(I(width), x2), I(P.xPaddingRight)),
                I(VerticalBarWidth)), textWidth)
      THEN Placed(Add(Add(x2, I(VerticalBarWidth)), I(5)), "right")
      ELSE IF Gt(spaceBetweenSelectors, textWidth)
      THEN Placed(Centred(x1, x2, textWidth), "between")
      ELSE IF Ge(Sub(Sub(x1, I(P.xPaddingLeft)), I(VerticalBarWidth)),
                 textWidth)
      THEN Placed(Sub(Sub(Sub(x1, textWidth), I(VerticalBarWidth)), I(5)),
                  "left")
      ELSE Placed(Centred(x1, x2, textWidth), "fallback")

\* The text position of drawSelectors (conditions 1 to 4).
SelectorText(P, x1, x2, textWidth) ==
  LET spaceBetweenSelectors ==
        Sub(Abs(Sub(x2, x1)), I((BarWidth + VerticalBarWidth + 5) * 2))
  IN  IF Gt(spaceBetweenSelectors, textWidth)
      THEN Placed(Centred(x1, x2, textWidth), "between")
      ELSE IF Ge(Sub(Sub(Sub(I(width), x2), I(P.xPaddingRight)),
                     I(VerticalBarWidth)), textWidth)
      THEN Placed(Add(Add(x2, I(VerticalBarWidth)), I(5)), "right")
      ELSE IF Ge(Sub(Sub(x1, I(P.xPaddingLeft)), I(VerticalBarWidth)),
                 textWidth)
      THEN Placed(Sub(Sub(Sub(x1, textWidth), I(VerticalBarWidth)), I(5)),
                  "left")
      ELSE Placed(Centred(x1, x2, textWidth), "fallback")

\* this.ctx.fillStyle = drawOptions.color || 'black';
\* this.ctx.font = drawOptions.font || '12px Arial'
LabelStyle(g, o) ==
  [g EXCEPT !.a.fillStyle = IF o.color # "" THEN o.color ELSE "black",
            !.a.font = IF o.font # NoFont THEN o.font ELSE Font(12, "Arial")]

\* The y of the centre, left and right texts.
TextY(P, padTop) ==
  height - P.yPaddingBottom + padTop + BarHeight \div 2 + 5

NoWidths ==
  [center |-> I(0), left |-> I(0), right |-> I(0), left2 |-> I(0),
   right2 |-> I(0)]

NoPlacement ==
  [center |-> NotPlaced, left |-> NotPlaced, right |-> NotPlaced,
   left2 |-> NotPlaced, right2 |-> NotPlaced]

\* drawSelectors after its defaults: the context it leaves and what it
\* computed (the selector positions, the text width, the text position).
SelectorsRun(g, P, points, o, padTop, text) ==
  LET xs == XPositions(P, points)
      g1 == GlyphsFrom(g, P, xs, padTop, o, 1)
      x1 == ElementOf(xs, 1)
      x2 == ElementOf(xs, 2)
      textWidth == MeasureText(g1, text)
      at == SelectorText(P, x1, x2, textWidth)
  IN  IF text = ""
      THEN [g |-> g1,
            out |-> [x1 |-> x1, x2 |-> x2, w |-> NoWidths,
                     placed |-> NoPlacement, initial |-> NoWidths,
                     final |-> NoWidths]]
      ELSE [g |-> Emit(LabelStyle(g1, o),
                       Call("fillText", at.x, I(TextY(P, padTop)), Str(text))),
            out |-> [x1 |-> x1, x2 |-> x2,
                     w |-> [NoWidths EXCEPT !.center = textWidth],
                     placed |-> [NoPlacement EXCEPT !.center = at],
                     initial |-> [NoWidths EXCEPT !.center = at.x],
                     final |-> [NoWidths EXCEPT !.center = at.x]]]

DrawSelectors(points, axis, o, padTop, text) ==
  /\ pc = "idle"
  /\ LET r == SelectorsRun(Ctx(ctx), PlotParams(axis), points, o, padTop, text)
     IN  /\ Finish(r.g, "drawSelectors",
                   [NoOp EXCEPT !.markers = points, !.axis = axis,
                                !.options = o, !.padTop = padTop,
                                !.texts = <<text, "", "", "", "">>])
         /\ out' = r.out


HorizontalBarTotalWidth == BarWidth + VerticalBarWidth + TextPadding

\* spaceBetweenSelectors, spaceLeftOfFirstSelector and
\* spaceRightOfSecondSelector of drawSelectorsAndIndicators.
Spaces(P, x1, x2) ==
  [x1 |-> x1, x2 |-> x2,
   between |-> Sub(Sub(x2, x1), I(HorizontalBarTotalWidth * 2)),
   left |-> Sub(Sub(x1, I(P.xPaddingLeft)), I(HorizontalBarTotalWidth)),
   right |-> Sub(Sub(Sub(I(width), x2), I(P.xPaddingRight)),
                 I(HorizontalBarTotalWidth))]

\* A left placement that looks right of the second selector first.
LeftPlacementRightFirst(S, w) ==
  IF Ge(S.right, w)
  THEN Placed(Add(S.x2, I(HorizontalBarTotalWidth)), "right")
  ELSE IF Ge(S.left, w)
  THEN Placed(Sub(Sub(S.x1, w), I(HorizontalBarTotalWidth)), "left")
  ELSE Placed(Add(Add(S.x1, I(HorizontalBarTotalWidth)), I(5)), "fallback")

\* if (leftText) { .. }, and the same for leftText2.
LeftPlacement(S, w) ==
  IF Ge(S.left, w)
  THEN Placed(Sub(Sub(S.x1, w), I(HorizontalBarTotalWidth)), "left")
  ELSE IF Ge(S.right, w)
  THEN Placed(Add(S.x2, I(HorizontalBarTotalWidth)), "right")
  ELSE Placed(Add(Add(S.x1, I(HorizontalBarTotalWidth)), I(5)), "fallback")

\* if (centerText) { .. }: the centre position, and leftTextX as the third
\* branch leaves it.
CenterPlacement(S, w, hasLeft, leftTextX, leftTextWidth) ==
  IF Ge(S.between, w)
  THEN [center |-> Placed(Centred(S.x1, S.x2, w), "between"),
        leftTextX |-> leftTextX]
  ELSE IF Ge(S.right, w)
  THEN [center |-> Placed(Add(S.x2, I(HorizontalBarTotalWidth)), "right"),
        leftTextX |-> leftTextX]
  ELSE IF Ge(S.left, w)
  THEN [center |-> Placed(Sub(Sub(Sub(Sub(S.x1, w),
                                      I(HorizontalBarTotalWidth)),
                                  I(TextPadding)), I(5)), "left"),
        leftTextX |-> Sub(leftTextX,
                          Add(Add(w, leftTextWidth), I(TextPadding)))]
  ELSE [center |-> Placed(IF hasLeft
                          THEN Add(Add(Add(leftTextX, leftTextWidth),
                                       I(TextPadding)), I(5))
                          ELSE Sub(Sub(S.x1, w), I(TextPadding)),
                          "fallback"),
        leftTextX |-> leftTextX]

\* if (rightText) { .. }
RightPlacement(S, w) ==
  IF Ge(S.right, w)
  THEN Placed(Add(S.x2, I(HorizontalBarTotalWidth)), "right")
  ELSE IF Ge(S.left, w)
  THEN Placed(Sub(Sub(S.x1, w), I(HorizontalBarTotalWidth)), "left")
  ELSE Placed(Sub(Sub(Sub(S.x2, w), I(HorizontalBarTotalWidth)), I(5)),
              "fallback")

\* if (rightText2) { .. }
Right2Placement(S, w, rightTextX, rightTextWidth) ==
  IF Ge(S.right, w)
  THEN Placed(Add(Add(Add(Add(rightTextX, I(HorizontalBarTotalWidth)),
                          rightTextWidth), I(TextPadding)), I(5)), "right")
  ELSE IF Ge(S.left, w)
  THEN Placed(Sub(Sub(S.x1, w), I(HorizontalBarTotalWidth)), "left")
  ELSE Placed(Sub(Sub(Sub(S.x2, w), I(HorizontalBarTotalWidth)), I(5)),
              "fallback")

\* "Determine positions": every slot placed, in the order left, left2,
\* centre, right, right2.  placed is each slot as its own block leaves it,
\* initial the positions when the last block has run.
Placement(P, x1, x2, w, texts) ==
  LET S == Spaces(P, x1, x2)
      left == IF texts[2] # "" THEN LeftPlacement(S, w.left) ELSE NotPlaced
      left2 == IF texts[4] # "" THEN LeftPlacement(S, w.left2) ELSE NotPlaced
      c == IF texts[1] # ""
           THEN CenterPlacement(S, w.center, texts[2] # "", left.x, w.left)
           ELSE [center |-> NotPlaced, leftTextX |-> left.x]
      right == IF texts[3] # "" THEN RightPlacement(S, w.right) ELSE NotPlaced
      right2 == IF texts[5] # ""
                THEN Right2Placement(S, w.right2, right.x, w.right)
                ELSE NotPlaced
  IN  [placed |-> [center |-> c.center, left |-> left, right |-> right,
                   left2 |-> left2, right2 |-> right2],
       initial |-> [center |-> c.center.x, left |-> c.leftTextX,
                    right |-> right.x, left2 |-> left2.x,
                    right2 |-> right2.x]]

\* "Ensure texts do not overlap with additional padding"
OverlapPass(at, w, texts) ==
  LET centerTextX ==
        IF texts[1] # "" /\ texts[2] # ""
           /\ Gt(Add(Add(at.left, w.left), I(TextPadding)), at.center)
        THEN Add(Add(Add(at.left, w.left), I(TextPadding)), I(5))
        ELSE at.center
      rightTextX ==
        IF texts[1] # "" /\ texts[3] # ""
           /\ Gt(Add(Add(centerTextX, w.center), I(TextPadding)), at.right)
        THEN Add(Add(Add(centerTextX, w.center), I(TextPadding)), I(10))
        ELSE at.right
  IN  [at EXCEPT !.center = centerTextX, !.right = rightTextX]

\* The five fillText calls, one for each text that is not empty.
EmitLabels(g, at, texts, centerTextY) ==
  LET upper == I(centerTextY - TextHeight - TextPadding)
      g1 == IF texts[1] # ""
            THEN Emit(g, Call("fillText", at.center, I(centerTextY),
                              Str(texts[1])))
            ELSE g
      g2 == IF texts[2] # ""
            THEN Emit(g1, Call("fillText", at.left, I(centerTextY),
                               Str(texts[2])))
            ELSE g1
      g3 == IF texts[3] # ""
            THEN Emit(g2, Call("fillText", at.right, I(centerTextY),
                               Str(texts[3])))
            ELSE g2
      g4 == IF texts[4] # ""
            THEN Emit(g3, Call("fillText", at.left2, upper, Str(texts[4])))
            ELSE g3
  IN  IF texts[5] # ""
      THEN Emit(g4, Call("fillText", at.right2, upper, Str(texts[5])))
      ELSE g4

\* drawSelectorsAndIndicators after its defaults.  texts are centerText,
\* leftText, rightText, leftText2, rightText2.
IndicatorsRun(g, P, points, o, padTop, texts) ==
  LET xs == XPositions(P, points)
      g1 == GlyphsFrom(g, P, xs, padTop, o, 1)
      x1 == ElementOf(xs, 1)
      x2 == ElementOf(xs, 2)
      w == [center |-> MeasureText(g1, texts[1]),
            left |-> MeasureText(g1, texts[2]),
            right |-> MeasureText(g1, texts[3]),
            left2 |-> MeasureText(g1, texts[4]),
            right2 |-> MeasureText(g1, texts[5])]
      pl == Placement(P, x1, x2, w, texts)
      final == OverlapPass(pl.initial, w, texts)
  IN  IF \A i \in 1..5 : texts[i] = ""
      THEN [g |-> g1,
            out |-> [x1 |-> x1, x2 |-> x2, w |-> NoWidths,
                     placed |-> NoPlacement,
                     initial |-> NoWidths, final |-> NoWidths]]
      ELSE [g |-> EmitLabels(LabelStyle(g1, o), final, texts,
                             TextY(P, padTop)),
            out |-> [x1 |-> x1, x2 |-> x2, w |-> w, placed |-> pl.placed,
                     initial |-> pl.initial, final |-> final]]

DrawSelectorsAndIndicators(points, axis, o, padTop, texts) ==
  /\ pc = "idle"
  /\ LET r == IndicatorsRun(Ctx(ctx), PlotParams(axis), points, o, padTop,
                            texts)
     IN  /\ Finish(r.g, "drawSelectorsAndIndicators",
                   [NoOp EXCEPT !.markers = points, !.axis = axis,
                                !.options = o, !.padTop = padTop,
                                !.texts = texts])
         /\ out' = r.out


ShortText == "ab"

MediumText == "aaaaaaaaaa"

LongText == "aaaaaaaaaa bbbbbbbbbb cccccccc"

VeryLongText ==
  "aaaaaaaaaa bbbbbbbbbb cccccccccc dddddddddd eeeeeeeeee ffffffffff gggg"

\* Selector points: every pair of times of the scale 0..MaxVal, and lists of
\* no, one and three points.
SelectorPoints ==
  {<<Point(I(t1), I(0)), Point(I(t2), I(0))>> : t1, t2 \in 0..MaxVal}
  \cup {<<>>, <<Point(I(1), I(0))>>,
        <<Point(I(0), I(0)), Point(I(1), I(0)), Point(I(2), I(0))>>}

SelectorScale == Scale(I(0), I(MaxVal), I(1), Absent, FALSE, Absent)

SelectorAxes ==
  { [NoAxis EXCEPT !.xScale = SelectorScale],
    [NoAxis EXCEPT !.padding = Padding(50, 100, 100, 0),
                   !.xScale = SelectorScale],
    [NoAxis EXCEPT !.xScale = Scale(I(1), I(1), I(1), Absent, FALSE,
                                    Absent)] }

SelectorOptions ==
  {[NoOptions EXCEPT !.color = "yellow", !.lineWidth = 2,
                     !.lineDash = "[0,0]"]}

SelectorTexts == {"", ShortText, MediumText, LongText}

IndicatorTexts ==
  {<<c, l, r, l2, r2>> :
     c \in SelectorTexts, l \in {"", "Initial", VeryLongText},
     r \in {"", "Final"}, l2 \in {"", "L2"}, r2 \in {"", "R2"}}

NextSelectors ==
  \/ pc = "idle" /\ \E points \in SelectorPoints, axis \in SelectorAxes,
                        o \in SelectorOptions, padTop \in {0, 40},
                        text \in SelectorTexts :
       DrawSelectors(points, axis, o, padTop, text)
  \/ pc = "idle" /\ \E points \in SelectorPoints, axis \in SelectorAxes,
                        o \in SelectorOptions, texts \in IndicatorTexts :
       DrawSelectorsAndIndicators(points, axis, o, 40, texts)
  \/ Forget

SpecSelectors == Init /\ [][NextSelectors]_vars

(***************************************************************************)
(* Properties of the selector operations.                                  *)
(***************************************************************************)
Selecting == op.name = "drawSelectors"

Indicating == op.name = "drawSelectorsAndIndicators"

\* Two markers, both at a pixel position.
TwoMarkers ==
  /\ op.name \in {"drawSelectors", "drawSelectorsAndIndicators"}
  /\ Len(op.markers) = 2
  /\ IsFinite(out.x1) /\ IsFinite(out.x2)

\* The fillText calls of the log, in order.
Labels == SelectSeq(calls, LAMBDA c : c.op = "fillText")

NonEmpty(s) == s # ""

\* The room between the two selector glyphs: the distance of the markers
\* less the 17 pixels each glyph takes.
GlyphGap == Sub(Abs(Sub(out.x2, out.x1)), I(34))

\* The same with the markers taken in the order given.
SignedGlyphGap == Sub(Sub(out.x2, out.x1), I(34))

\* C8 as first stated: with the centre text narrower than the gap, its
\* label is emitted centred between the markers, by both operations and
\* whatever the other labels.
C8_CentreBetweenAlways ==
  (TwoMarkers /\ op.texts[1] # "" /\ Gt(GlyphGap, out.w.center))
    => Labels[1].x = Centred(out.x1, out.x2, out.w.center)

\* C8: for two markers whose gap (less the glyphs) exceeds the centre text's
\* width, the centre label is emitted at (x1+x2)/2 - textWidth/2: by
\* drawSelectors always; by drawSelectorsAndIndicators when the gap x2 - x1
\* is taken in the order given and either there is no left label or the left
\* label ends at least 5 pixels before that position.
C8_CentreBetween ==
  LET X == Centred(out.x1, out.x2, out.w.center)
  IN  /\ (TwoMarkers /\ Selecting /\ op.texts[1] # ""
          /\ Gt(GlyphGap, out.w.center))
           => Labels[1].x = X /\ Labels[1].text = Str(op.texts[1])
      /\ (TwoMarkers /\ Indicating /\ op.texts[1] # ""
          /\ Gt(SignedGlyphGap, out.w.center)
          /\ (op.texts[2] = ""
              \/ Le(Add(Add(Labels[2].x, out.w.left), I(5)), X)))
           => Labels[1].x = X /\ Labels[1].text = Str(op.texts[1])

\* drawSelectorsAndIndicators has emitted the centre label centred between
\* the markers, with a left and a right label beside it.
C8_Witness ==
  /\ TwoMarkers /\ Indicating
  /\ op.texts[1] = MediumText /\ op.texts[2] # "" /\ op.texts[3] # ""
  /\ Gt(SignedGlyphGap, out.w.center)
  /\ Le(Add(Add(Labels[2].x, out.w.left), I(5)),
        Centred(out.x1, out.x2, out.w.center))
  /\ Labels[1].x = Centred(out.x1, out.x2, out.w.center)
  /\ out.x1 # out.x2

SlotNames == <<"center", "left", "right", "left2", "right2">>

SomeFallback ==
  \E i \in 1..5 : out.placed[SlotNames[i]].rule = "fallback"

\* C9: when, for two markers, a text fits neither between them nor right of
\* the second nor left of the first, the operation throws nothing and emits
\* one fillText for every text that is not empty, in the order centre, left,
\* right, left2, right2, each at a finite position.
C9_FallbackEmitsLabel ==
  (TwoMarkers /\ SomeFallback)
    => /\ err = ""
       /\ Len(Labels) = Len(SelectSeq(op.texts, NonEmpty))
       /\ \A j \in 1..Len(Labels) :
            /\ Labels[j].text = Str(SelectSeq(op.texts, NonEmpty)[j])
            /\ IsFinite(Labels[j].x) /\ IsFinite(Labels[j].y)

\* drawSelectors has placed a text that fits nowhere on the narrow surface.
C9_Witness ==
  /\ TwoMarkers /\ Selecting
  /\ out.placed.center.rule = "fallback"
  /\ ~Gt(GlyphGap, out.w.center)
  /\ Len(Labels) = 1
  /\ IsFinite(Labels[1].x)

\* drawSelectorsAndIndicators has placed its centre text by its last branch.
C9_WitnessIndicators ==
  /\ TwoMarkers /\ Indicating
  /\ out.placed.center.rule = "fallback"
  /\ op.texts[2] # ""
  /\ Len(Labels) >= 2

\* The space tests as the operation at hand makes them, for a text of width
\* w: between the selectors, right of the second, left of the first.
FitsBetween(w) ==
  IF Selecting THEN Gt(GlyphGap, w) ELSE Ge(SignedGlyphGap, w)

RoomRight(w) ==
  LET P == PlotParams(op.axis)
      glyph == IF Selecting THEN 2 ELSE 17
  IN  Ge(Sub(I(width - P.xPaddingRight - glyph), out.x2), w)

RoomLeft(w) ==
  LET P == PlotParams(op.axis)
      glyph == IF Selecting THEN 2 ELSE 17
  IN  Ge(Sub(out.x1, I(P.xPaddingLeft + glyph)), w)

\* The first of between, right, left whose test succeeds, else the fallback.
BetweenRightLeft(w) ==
  IF FitsBetween(w) THEN "between"
  ELSE IF RoomRight(w) THEN "right"
  ELSE IF RoomLeft(w) THEN "left"
  ELSE "fallback"

LeftRight(w) ==
  IF RoomLeft(w) THEN "left" ELSE IF RoomRight(w) THEN "right"
  ELSE "fallback"

RightLeft(w) ==
  IF RoomRight(w) THEN "right" ELSE IF RoomLeft(w) THEN "left"
  ELSE "fallback"

OnItsSide(rule, x, w) ==
  /\ rule = "between" => x = Centred(out.x1, out.x2, w)
  /\ rule = "right" => Gt(x, out.x2)
  /\ rule = "left" => Lt(Add(x, w), out.x1)

OnlyText(i) == [j \in 1..5 |-> IF j = i THEN op.texts[j] ELSE ""]

OnlyWidth(i) == [NoWidths EXCEPT ![SlotNames[i]] = out.w[SlotNames[i]]]

\* The position the i-th slot gets when it is the only one placed.
PlacedAlone(i) ==
  Placement(PlotParams(op.axis), out.x1, out.x2, OnlyWidth(i),
            OnlyText(i)).initial[SlotNames[i]]

\* C11: in drawSelectorsAndIndicators, before the overlap pass, the X of
\* every slot is the X the slot gets from x1, x2, the paddings, the width of
\* the surface and its own text width alone, so that no other slot's text
\* and no other slot's placement changes it.
C11_SlotsPlacedIndependently ==
  (TwoMarkers /\ Indicating)
    => \A i \in 1..5 :
         op.texts[i] # "" => out.initial[SlotNames[i]] = PlacedAlone(i)

\* C12: drawSelectors and drawSelectorsAndIndicators, given a number of
\* marker points other than two, signal InvalidInput and make no context
\* call.
C12_InvalidInputSignalled ==
  ((Selecting \/ Indicating) /\ Len(op.markers) # 2)
    => err = "InvalidInput" /\ calls = <<>>

(***************************************************************************)
(* Properties of the coordinate transform.                                 *)
(***************************************************************************)
\* The scale of the operation at hand has max = min on one of its axes.
DegenerateScale ==
  LET P == PlotParams(op.axis)
  IN  Eq(P.xMax, P.xMin) \/ Eq(P.yMax, P.yMin)

\* C13: an operation given a scale with max = min issues no context call
\* with a coordinate that is not a finite number, that is, none obtained by
\* dividing by max - min = 0.
C13_NoCallFromDegenerateScale ==
  (op.name # "none" /\ DegenerateScale)
    => \A k \in 1..Len(calls) : IsFinite(calls[k].x) /\ IsFinite(calls[k].y)

(***************************************************************************)
(* The primitive drawer and displayMaxValues as operations of their own,   *)
(* and the engine with all its operations called one after another.        *)
(***************************************************************************)
\* A number printed inside a template string.
Template(s, v) == [s |-> s, v |-> v, dp |-> Absent]

DrawCircle(g, x, y, radius, o) ==
  LET g1 == Emit(g, Call0("beginPath"))
      g2 == Emit(g1, Call("arc", x, y, Template("radius", radius)))
      g3 == IF o.fillColor # ""
            THEN Emit([g2 EXCEPT !.a.fillStyle = o.fillColor], Call0("fill"))
            ELSE g2
  IN  IF o.color # ""
      THEN Emit([g3 EXCEPT !.a.strokeStyle = o.color], Call0("stroke"))
      ELSE g3

DisplayMaxValues(g, P, o) ==
  LET textXPosition == P.xPaddingLeft - 10
      textYPosition == height - P.yPaddingBottom + 20
      g1 == [LabelStyle(g, o) EXCEPT !.a.textAlign = "right"]
      g2 == Emit(g1, Call("fillText", I(textXPosition),
                          I(textYPosition - 20), Template("-# m", P.yMax)))
  IN  Emit(g2, Call("fillText", I(textXPosition), I(textYPosition),
                    Template("-# s", P.xMax)))

\* The operations on their own; the end points, the centre or the anchor are
\* kept as data, the radius as padTop and the text as the first of texts.
DrawLineOp(p1, p2, o) ==
  /\ pc = "idle"
  /\ Finish(DrawLine(Ctx(ctx), p1.time, p1.elevation, p2.time, p2.elevation,
                     o),
            "drawLine", [NoOp EXCEPT !.data = <<p1, p2>>, !.options = o])
  /\ out' = <<>>

DrawCircleOp(c, radius, o) ==
  /\ pc = "idle"
  /\ Finish(DrawCircle(Ctx(ctx), c.time, c.elevation, I(radius), o),
            "drawCircle",
            [NoOp EXCEPT !.data = <<c>>, !.padTop = radius, !.options = o])
  /\ out' = <<>>

DrawTextOp(text, at, o) ==
  /\ pc = "idle"
  /\ Finish(DrawText(Ctx(ctx), Str(text), at.time, at.elevation, o),
            "drawText",
            [NoOp EXCEPT !.data = <<at>>, !.options = o,
                         !.texts = <<text, "", "", "", "">>])
  /\ out' = <<>>

DisplayMaxValuesOp(axis, o) ==
  /\ pc = "idle"
  /\ Finish(DisplayMaxValues(Ctx(ctx), PlotParams(axis), o),
            "displayMaxValues", [NoOp EXCEPT !.axis = axis, !.options = o])
  /\ out' = <<>>

\* The host component's axis options, with a scale that keeps the tick
\* loops short.
HostAxis ==
  [NoAxis EXCEPT !.fontSize = 10, !.fontColor = "lightgrey",
                 !.font = "Verdana", !.padding = Padding(50, 100, 100, 0),
                 !.xScale = Scale(I(0), I(MaxVal), I(1), Absent, FALSE, Absent),
                 !.yScale = Scale(I(0), I(2), I(1), Absent, FALSE, Absent),
                 !.xLabel = "Time", !.yLabel = "Elevation",
                 !.xAxisStyle = Style(LightGrey),
                 !.yAxisStyle = Style(LightGrey)]

EngineAxes == {NoAxis, HostAxis}

\* Style options of the primitive drawer: none, each field alone, all.
LineOptions ==
  {NoOptions,
   [NoOptions EXCEPT !.color = "red"],
   [NoOptions EXCEPT !.lineWidth = 2],
   [NoOptions EXCEPT !.lineDash = "[5,5]"],
   [NoOptions EXCEPT !.color = "yellow", !.lineWidth = 3,
                     !.lineDash = "[0,0]"]}

CircleOptions ==
  {NoOptions,
   [NoOptions EXCEPT !.fillColor = "blue"],
   [NoOptions EXCEPT !.color = "red"],
   [NoOptions EXCEPT !.color = "red", !.fillColor = "blue"]}

TextOptions ==
  {NoOptions,
   [NoOptions EXCEPT !.color = "white"],
   [NoOptions EXCEPT !.font = Font(14, "Trebuchet MS")],
   [NoOptions EXCEPT !.angle = 45],
   [NoOptions EXCEPT !.angle = -90, !.color = "white",
                     !.font = Font(14, "Trebuchet MS")]}

Anchor == Point(I(100), I(200))

Corner == Point(I(300), I(50))

EnginePoints == <<Point(I(1), I(0)), Point(I(2), I(0))>>

NextEngine ==
  \/ pc = "idle" /\ \E o \in EngineAxes : DrawAxesBegin(o)
  \/ DrawAxesXTick
  \/ DrawAxesYAxis
  \/ DrawAxesYTick
  \/ DrawAxesReturn
  \/ pc = "idle" /\ \E o \in LineOptions : DrawLineOp(Anchor, Corner, o)
  \/ pc = "idle" /\ \E o \in CircleOptions : DrawCircleOp(Anchor, 5, o)
  \/ pc = "idle" /\ \E o \in TextOptions, text \in {ShortText} :
       DrawTextOp(text, Anchor, o)
  \/ pc = "idle" /\ \E axis \in EngineAxes,
                        o \in {NoOptions,
                               [NoOptions EXCEPT
                                  !.color = "white",
                                  !.font = Font(14, "Trebuchet MS")]} :
       DisplayMaxValuesOp(axis, o)
  \/ pc = "idle" /\ \E axis \in EngineAxes, o \in CurveOptions :
       ConnectDataPoints(EnginePoints, axis, o)
  \/ pc = "idle" /\ \E axis \in EngineAxes, c \in FillColors :
       FillAreaUnderCurve(EnginePoints, axis, c)
  \/ pc = "idle" /\ \E axis \in EngineAxes, o \in LimitOptions :
       DrawVerticalLineToTrajectoryWithLimits(EnginePoints, EnginePoints,
                                              axis, o)
  \/ pc = "idle" /\ \E axis \in EngineAxes, o \in SelectorOptions,
                        text \in {ShortText, MediumText} :
       DrawSelectors(EnginePoints, axis, o, 10, text)
  \/ pc = "idle" /\ \E axis \in EngineAxes, o \in SelectorOptions,
                        texts \in {<<MediumText, "Initial", "Final", "", "">>,
                                   <<ShortText, "", "", "L2", "R2">>} :
       DrawSelectorsAndIndicators(EnginePoints, axis, o, 40, texts)
  \/ Forget

SpecEngine == InitHost /\ [][NextEngine]_vars

(***************************************************************************)
(* Properties of the engine as a whole.                                    *)
(***************************************************************************)
\* The x tick loop and the y tick loop of drawAxes run to their end, in at
\* most n iterations.
RECURSIVE XTicksWhole(_, _, _, _)
XTicksWhole(g, P, x, n) ==
  IF n = 0 \/ ~XLoopCond(P, x) THEN g
  ELSE XTicksWhole(
         DrawText(g, TickLabel(x, P.xShowDecimals, P.xDecimalPlaces),
                  XTickPos(P, x),
                  I(height - P.yPaddingBottom + P.fontSize + P.xLabelOffset),
                  TextStyle(P.fontColor, Font(P.fontSize, P.font))),
         P, XLoopNext(P, x), n - 1)

RECURSIVE YTicksWhole(_, _, _, _)
YTicksWhole(g, P, y, n) ==
  IF n = 0 \/ ~YLoopCond(P, y) THEN g
  ELSE YTicksWhole(
         DrawText(g, TickLabel(y, P.yShowDecimals, P.yDecimalPlaces),
                  I(P.xPaddingLeft - P.fontSize - P.yLabelOffset),
                  Add(YTickPos(P, y), I(5)),
                  TextStyle(P.fontColor, Font(P.fontSize, P.font))),
         P, YLoopNext(P, y), n - 1)

\* drawAxes from its first statement to its return, on a context with the
\* attributes a.
AxesWhole(a, o) ==
  LET P == AxesParams(o)
      title == TextStyle(P.fontColor, Font(P.fontSize + 4, P.font))
      g1 == DrawLine(Ctx(a), I(P.xPaddingLeft), I(height - P.yPaddingBottom),
                     I(width - P.xPaddingRight), I(height - P.yPaddingBottom),
                     P.xAxisStyle)
      g2 == IF P.xLabel # ""
            THEN DrawText(g1, Str(P.xLabel), Q(width, 2),
                          Sub(I(height), Q(P.yPaddingBottom, 2)), title)
            ELSE g1
      g3 == XTicksWhole(g2, P, P.xMin, MaxTicks)
      g4 == DrawLine(g3, I(P.xPaddingLeft), I(P.yPaddingTop),
                     I(P.xPaddingLeft), I(height - P.yPaddingBottom),
                     P.yAxisStyle)
      g5 == IF P.yLabel # ""
            THEN DrawText(g4, Str(P.yLabel), Q(P.xPaddingLeft, 2),
                          Q(height, 2), [title EXCEPT !.angle = -90])
            ELSE g4
  IN  YTicksWhole(g5, P, P.yMin, MaxTicks)

\* The operation o run a second time, on an engine whose context has the
\* attributes a and whose surface has the same size.
SecondRun(a, o) ==
  LET P == PlotParams(o.axis)
      g == Ctx(a)
  IN  CASE o.name = "drawAxes" -> AxesWhole(a, o.axis)
        [] o.name = "drawLine" ->
             DrawLine(g, o.data[1].time, o.data[1].elevation, o.data[2].time,
                      o.data[2].elevation, o.options)
        [] o.name = "drawCircle" ->
             DrawCircle(g, o.data[1].time, o.data[1].elevation, I(o.padTop),
                        o.options)
        [] o.name = "drawText" ->
             DrawText(g, Str(o.texts[1]), o.data[1].time, o.data[1].elevation,
                      o.options)
        [] o.name = "displayMaxValues" -> DisplayMaxValues(g, P, o.options)
        [] o.name = "connectDataPoints" ->
             ConnectPath(g, P, o.data, o.options)
        [] o.name = "fillAreaUnderCurve" ->
             FillArea(g, P, o.data, OptStr(o.fillColor, "rgba(0, 0, 0, 0.15)"))
        [] o.name = "drawVerticalLineToTrajectoryWithLimits" ->
             MarkersFrom(g, P, o.markers, o.data, o.options, 1)
        [] o.name = "drawSelectors" ->
             SelectorsRun(g, P, o.markers, o.options, o.padTop, o.texts[1]).g
        [] o.name = "drawSelectorsAndIndicators" ->
             IndicatorsRun(g, P, o.markers, o.options, o.padTop, o.texts).g
        [] OTHER -> g

Connecting == op.name \in {"connectDataPoints", "connectDataPointsEarlier"}

PixelOf(i) == calls[i + 1]

InDomain(P, point) ==
  /\ Le(P.xMin, point.time) /\ Le(point.time, P.xMax)
  /\ Le(P.yMin, point.elevation) /\ Le(point.elevation, P.yMax)

\* The pixels of the points of the curve never go against their order.
Monotonic ==
  \A i, j \in 1..Len(op.data) :
    LET P == PlotParams(op.axis)
    IN  (InDomain(P, op.data[i]) /\ InDomain(P, op.data[j]))
          => /\ Lt(op.data[i].time, op.data[j].time)
                  => Le(PixelOf(i).x, PixelOf(j).x)
             /\ Lt(op.data[i].elevation, op.data[j].elevation)
                  => Ge(PixelOf(i).y, PixelOf(j).y)

\* The padding leaves a plotting rectangle on the surface.
PaddingFits ==
  LET P == PlotParams(op.axis)
  IN  /\ P.xPaddingLeft + P.xPaddingRight <= width
      /\ P.yPaddingTop + P.yPaddingBottom <= height

\* C15 as first stated: for every scale with max > min, whatever the padding
\* and the size of the surface, v1 < v2 in [min, max] gives a horizontal
\* pixel of v1 <= that of v2 and a vertical pixel of v1 >= that of v2.
C15_MonotonicForAnyPadding ==
  (Connecting /\ ValidPlot(PlotParams(op.axis))) => Monotonic

\* C15: the transform is monotonic for every scale with max > min and every
\* padding that fits on the surface (left + right <= width and
\* top + bottom <= height): for v1 < v2 in [min, max] the horizontal pixel
\* of v1 is <= that of v2 and the vertical pixel of v1 is >= that of v2.
C15_Monotonic ==
  (Connecting /\ ValidPlot(PlotParams(op.axis)) /\ PaddingFits) => Monotonic

\* connectDataPoints has mapped two points of the domain, the second later
\* and higher, to pixels further right and further up.
C15_Witness ==
  /\ op.name = "connectDataPoints" /\ Len(op.data) = 2
  /\ ValidPlot(PlotParams(op.axis)) /\ PaddingFits
  /\ InDomain(PlotParams(op.axis), op.data[1])
  /\ InDomain(PlotParams(op.axis), op.data[2])
  /\ Lt(op.data[1].time, op.data[2].time)
  /\ Lt(op.data[1].elevation, op.data[2].elevation)
  /\ Lt(PixelOf(1).x, PixelOf(2).x)
  /\ Gt(PixelOf(1).y, PixelOf(2).y)

\* C16: for the axis options of the operation at hand and every domain
\* value, the axis renderer, the curve renderer and fill, the interpolation
\* and the selectors compute the same pixel x for a time and the same pixel
\* y for an elevation, whether the options give the scales and the padding
\* or leave them to the defaults.
C16_LayersAligned ==
  op.name # "none"
    => \A v \in 0..MaxVal :
         LET A == AxesParams(op.axis)
             P == PlotParams(op.axis)
         IN  /\ XTickPos(A, I(v)) = CurveX(P, I(v))
             /\ CurveX(P, I(v)) = PlotX(P, I(v))
             /\ PlotX(P, I(v)) = XPositions(P, <<Point(I(v), I(0))>>)[1]
             /\ YTickPos(A, I(v)) = CurveY(P, I(v))
             /\ CurveY(P, I(v)) = YLimit(P, I(v))

\* How many calls of the log are calls of name.
Count(name) == Len(SelectSeq(calls, LAMBDA c : c.op = name))

\* C17: whatever operations have run, among them drawText with an angle and
\* drawAxes with a y title, the translation and the rotation of the context
\* are those of the fresh context, no saved state is left on its stack, and
\* a finished operation has called restore as often as save.
C17_RotationScoped ==
  /\ ctx.tx = CtxInit.tx /\ ctx.ty = CtxInit.ty /\ ctx.rot = CtxInit.rot
  /\ ctx.stack = <<>>
  /\ pc = "done" => Count("save") = Count("restore")

\* drawText has drawn a text rotated by -90 degrees, after a drawAxes or
\* another operation that left its stroke colour in the context.
C17_Witness ==
  /\ pc = "done" /\ op.name = "drawText" /\ op.options.angle = -90
  /\ Count("rotate") = 1 /\ Count("translate") = 1 /\ Count("save") = 1
  /\ ctx0.strokeStyle = "lightgrey"
  /\ ctx.rot = 0

\* drawAxes has returned after drawing its rotated y title.
C17_WitnessAxes ==
  /\ pc = "done" /\ op.name = "drawAxes"
  /\ Count("rotate") = 1 /\ Count("restore") = 1
  /\ ctx.rot = 0

(***************************************************************************)
(* Properties of the primitive drawer.                                     *)
(***************************************************************************)
Primitive == op.name \in {"drawLine", "drawCircle", "drawText"}

\* C18: after drawLine, drawCircle or drawText, every context attribute
\* whose field the options omit has the value the call found: the stroke
\* colour for an omitted color (the fill colour in drawText), the fill
\* colour for an omitted fillColor, and the line width, the line dash and
\* the font for an omitted lineWidth, lineDash and font.
C18_OmittedStyleKept ==
  (pc = "done" /\ Primitive)
    => LET o == op.options
       IN  /\ (o.color = "" \/ op.name = "drawText")
                => ctx.strokeStyle = ctx0.strokeStyle
           /\ (IF op.name = "drawText" THEN o.color = ""
               ELSE o.fillColor = "")
                => ctx.fillStyle = ctx0.fillStyle
           /\ o.lineWidth = 0 => ctx.lineWidth = ctx0.lineWidth
           /\ o.lineDash = "none" => ctx.lineDash = ctx0.lineDash
           /\ o.font = NoFont => ctx.font = ctx0.font

\* drawLine without lineWidth and lineDash has stroked with the width and
\* the dash an earlier call had set.
C18_Witness ==
  /\ pc = "done" /\ op.name = "drawLine"
  /\ op.options.lineWidth = 0 /\ op.options.lineDash = "none"
  /\ op.options.color = "red"
  /\ ctx0.lineWidth = 3 /\ ctx0.lineDash = "[0,0]"
  /\ ctx0.strokeStyle = "yellow"
  /\ ctx.lineWidth = 3 /\ ctx.lineDash = "[0,0]" /\ ctx.strokeStyle = "red"
  /\ Count("stroke") = 1

\* C19: after every operation of the engine the text alignment of the
\* context is what it was before the operation.
C19_TextAlignKept ==
  pc = "done" => ctx.textAlign = ctx0.textAlign

(***************************************************************************)
(* Properties of the overlap pass of drawSelectorsAndIndicators.           *)
(***************************************************************************)
AllThree ==
  Indicating /\ op.texts[1] # "" /\ op.texts[2] # "" /\ op.texts[3] # ""

\* The emitted centre, left and right labels, in this order from left to
\* right, are at least 5 pixels apart.
Apart ==
  /\ Le(Add(Add(Labels[2].x, out.w.left), I(TextPadding)), Labels[1].x)
  /\ Le(Add(Add(Labels[1].x, out.w.center), I(TextPadding)), Labels[3].x)

LabelsApartForTwoMarkers == (AllThree /\ TwoMarkers) => Apart

\* The overlap pass has moved the centre label and the right label.
LabelsMovedApart ==
  /\ AllThree /\ TwoMarkers
  /\ out.final.center # out.initial.center
  /\ out.final.right # out.initial.right

(***************************************************************************)
(* Properties of the selector glyphs.                                      *)
(***************************************************************************)
\* The four context calls of one drawLine.
LineFromTo(x1, y1, x2, y2) ==
  <<Call0("beginPath"), Call2("moveTo", x1, y1), Call2("lineTo", x2, y2),
    Call0("stroke")>>

\* The calls made for the k-th marker.
GlyphCalls(k) == SubSeq(calls, 8 * k - 7, 8 * k)

\* C21: for every marker, drawSelectors and drawSelectorsAndIndicators make
\* exactly two drawLine calls: a vertical tick at the marker's x from
\* baseline + padTop to baseline + padTop + 20, and a horizontal stub at the
\* tick's mid-height from x to x + 10 for the first marker and to x - 10 for
\* the second (and any further) marker; all other calls are the fillText
\* calls of the labels, after the glyphs.
C21_SelectorGlyphs ==
  (Selecting \/ Indicating)
    => LET P == PlotParams(op.axis)
           top == height - P.yPaddingBottom + op.padTop
       IN  /\ Len(calls) = 8 * Len(op.markers) + Len(Labels)
           /\ \A k \in 1..Len(op.markers) :
                LET x == TransformX(P, op.markers[k].time)
                    stub == IF k = 1 THEN 10 ELSE -10
                IN  GlyphCalls(k)
                      = LineFromTo(x, I(top), x, I(top + 20))
                        \o LineFromTo(x, I(top + 10), Add(x, I(stub)),
                                      I(top + 10))

\* Two selectors have been drawn at different pixels, the first with its
\* stub to the right and the second with its stub to the left.
C21_Witness ==
  /\ Indicating /\ TwoMarkers /\ Lt(out.x1, out.x2)
  /\ Len(calls) >= 16
  /\ calls[2].x = out.x1 /\ calls[7].x = Add(out.x1, I(10))
  /\ calls[10].x = out.x2 /\ calls[15].x = Sub(out.x2, I(10))
  /\ Sub(calls[3].y, calls[2].y) = I(20)

(***************************************************************************)
(* When drawVerticalLineToTrajectoryWithLimits draws a line.               *)
(***************************************************************************)
\* The number of lines drawn for the first k markers, if exactly the markers
\* with a covering point at an index i >= 1 get one.
LineIndex(k) == Len(SelectSeq(SubSeq(op.markers, 1, k), HasLine))

\* The marker is earlier than the first point of the reference curve.
BeforeCurve(marker) ==
  Len(op.data) >= 1 /\ Lt(marker.time, op.data[1].time)

\* C22: a line is drawn for a marker if and only if the reference curve has
\* a point at some index i >= 1 with time >= marker.time: the scan finds a
\* segment exactly for those markers, and the lines drawn are theirs, one
\* each, in marker order.  So a curve of fewer than two points yields no
\* line, and a marker earlier than the first point of a curve that has a
\* first segment (two or more points, in non-decreasing time order) gets a
\* line whose top is the elevation extrapolated from the first segment.
C22_LineIffCoveringPoint ==
  Interpolating
    => LET P == PlotParams(op.axis)
       IN  /\ \A k \in 1..Len(op.markers) :
                (out[k].seg # 0) <=> HasLine(op.markers[k])
           /\ Len(calls) = 4 * LineIndex(Len(op.markers))
           /\ \A k \in 1..Len(op.markers) :
                HasLine(op.markers[k])
                  => /\ LineCalls(LineIndex(k))[2]
                          = Call2("moveTo", TransformX(P, op.markers[k].time),
                                  Baseline(P))
                     /\ LineCalls(LineIndex(k))[3].op = "lineTo"
                     /\ LineCalls(LineIndex(k))[3].x
                          = TransformX(P, op.markers[k].time)
           /\ Len(op.data) < 2 => calls = <<>>
           /\ \A k \in 1..Len(op.markers) :
                (/\ BeforeCurve(op.markers[k])
                 /\ Len(op.data) >= 2
                 /\ IsSorted(op.data))
                  => /\ HasLine(op.markers[k])
                     /\ out[k].seg = 1
                     /\ LineCalls(LineIndex(k))[3].y
                          = TransformY(P, SegmentElevation(op.data,
                                                           op.markers[k], 1))

\* A marker at time 0 has been drawn against a curve that starts at time 1
\* and rises to time 2: its line ends at the elevation the first segment
\* gives at time 0, outside the segment's elevations.
C22_Witness ==
  /\ Interpolating
  /\ Len(op.markers) = 1 /\ op.markers[1].time = I(0)
  /\ Len(op.data) = 2
  /\ op.data[1] = Point(I(1), I(0)) /\ op.data[2] = Point(I(2), I(1))
  /\ out[1].seg = 1 /\ out[1].elevation = I(-1)
  /\ Len(calls) = 4

\* A marker has been run against a curve of one point at the marker's time:
\* no line.
C22_WitnessSinglePoint ==
  /\ Interpolating
  /\ Len(op.markers) = 1 /\ Len(op.data) = 1
  /\ op.data[1].time = op.markers[1].time
  /\ out[1].seg = 0
  /\ calls = <<>>

(***************************************************************************)
(* The interpolated elevation stays within the selected segment.           *)
(***************************************************************************)
\* The marker's time lies between the first and the last time of the curve.
WithinCurve(marker) ==
  /\ Len(op.data) >= 1
  /\ Le(op.data[1].time, marker.time)
  /\ Le(marker.time, op.data[Len(op.data)].time)

\* v is a number between a and b, whichever of them is the larger.
BetweenInclusive(v, a, b) ==
  /\ IsFinite(v)
  /\ \/ Le(a, v) /\ Le(v, b)
     \/ Le(b, v) /\ Le(v, a)

\* The elevation interpolated for the k-th marker is a number between the
\* elevations of the two ends of the segment the scan selected, and the line
\* drawn for the marker ends at that elevation's pixel.
ElevationWithinSegment(k) ==
  LET P == PlotParams(op.axis)
      i == out[k].seg
  IN  /\ BetweenInclusive(out[k].elevation, op.data[i].elevation,
                          op.data[i + 1].elevation)
      /\ LineCalls(LineIndex(k))[3]
           = Call2("lineTo", TransformX(P, op.markers[k].time),
                   TransformY(P, out[k].elevation))

\* C23: for a reference curve in non-decreasing time order and a marker with
\* firstTime <= marker.time <= lastTime, the interpolated elevation is a
\* defined number between the elevations of the two endpoints of the
\* selected segment (inclusive), also when consecutive points of the curve
\* share the same time.
C23_ElevationWithinSegment ==
  Interpolating
    => \A k \in 1..Len(op.markers) :
         (/\ IsSorted(op.data)
          /\ WithinCurve(op.markers[k])
          /\ out[k].seg # 0)
           => ElevationWithinSegment(k)

\* The same for the markers whose selected segment has two different times.
ElevationWithinSegmentOfDistinctTimes ==
  Interpolating
    => \A k \in 1..Len(op.markers) :
         (/\ IsSorted(op.data)
          /\ WithinCurve(op.markers[k])
          /\ out[k].seg # 0
          /\ Lt(op.data[out[k].seg].time, op.data[out[k].seg + 1].time))
           => ElevationWithinSegment(k)

\* A marker has been drawn strictly inside a rising segment of a curve that
\* also has two points at one time.
DistinctTimesWitness ==
  /\ Interpolating
  /\ Len(op.markers) = 1 /\ Len(op.data) = 3
  /\ IsSorted(op.data) /\ WithinCurve(op.markers[1])
  /\ op.data[2].time = op.data[3].time
  /\ out[1].seg = 1
  /\ Lt(op.data[1].time, op.markers[1].time)
  /\ Lt(op.markers[1].time, op.data[2].time)
  /\ Lt(op.data[1].elevation, out[1].elevation)
  /\ Lt(out[1].elevation, op.data[2].elevation)

\* The first two points of the curve share the marker's time and differ in
\* elevation: the elevation interpolated is not a number, and a line has
\* been drawn to it.
SharedTimeNotANumber ==
  /\ Interpolating
  /\ Len(op.markers) = 1 /\ Len(op.data) = 2
  /\ op.data[1].time = op.markers[1].time
  /\ op.data[2].time = op.markers[1].time
  /\ out[1].seg = 1 /\ IsNaN(out[1].elevation)
  /\ Len(calls) = 4 /\ IsNaN(calls[3].y)

(***************************************************************************)
(* TestDataService.generateTestData.                                       *)
(***************************************************************************)
\* Math.max of two numbers
MathMax(a, b) ==
  IF IsNaN(a) \/ IsNaN(b) THEN NaN ELSE IF Ge(a, b) THEN a ELSE b

\* Math.max(...data.map((d) => d.elevation)), from the k-th point on
RECURSIVE MaxElevationFrom(_, _)
MaxElevationFrom(data, k) ==
  IF k > Len(data) THEN NegInf
  ELSE MathMax(data[k].elevation, MaxElevationFrom(data, k + 1))

MaxElevation(data) == MaxElevationFrom(data, 1)

\* (Math.random() > 0.5 ? 1 : -1) * Math.floor(Math.random() * 50): the
\* outcomes with the smallest and the largest magnitude.
RandomSteps == {-49, 0, 49}

\* let elevation = 200, after the first i additions of the relief loop
RECURSIVE ElevationAfter(_, _)
ElevationAfter(steps, i) ==
  IF i = 0 THEN 200 ELSE ElevationAfter(steps, i - 1) + steps[i]

\* The relief loop.
ReliefData(startTime, timeInterval, pointsCount, steps) ==
  [k \in 1..pointsCount |->
     Point(Add(startTime, Mul(I(k - 1), timeInterval)),
           MathMax(I(ElevationAfter(steps, k)), I(0)))]

\* The coefficient a of the parabola.
ParabolaA(startElevation, endElevation, peakElevation, peakTime, span) ==
  Div(Mul(I(2), Sub(Add(startElevation, endElevation),
                    Mul(I(2), peakElevation))),
      Sub(Mul(span, span), Mul(Mul(I(4), peakTime), peakTime)))

\* The parabola parameters and the trajectory loop.
TrajectoryData(reliefData, timeInterval, pointsCount) ==
  LET startElevation == reliefData[1].elevation
      endElevation == reliefData[pointsCount].elevation
      peakTime == Mul(Div(I(pointsCount), I(2)), timeInterval)
      peakElevation == Add(MaxElevation(reliefData), I(100))
      a == ParabolaA(startElevation, endElevation, peakElevation, peakTime,
                     Mul(I(pointsCount), timeInterval))
  IN  [k \in 1..pointsCount |->
         LET x == Mul(I(k - 1), timeInterval)
             parabolicElevation ==
               Add(Mul(a, Mul(Sub(x, peakTime), Sub(x, peakTime))),
                   peakElevation)
         IN  Point(reliefData[k].time,
                   MathMax(parabolicElevation,
                           Add(reliefData[k].elevation, I(10))))]

TestDataXScale(startTime, timeInterval, pointsCount) ==
  Scale(startTime, Add(startTime, Mul(I(pointsCount - 1), timeInterval)),
        timeInterval, 0, FALSE, 10)

TestDataYScale(trajectoryData) ==
  Scale(I(0), MaxElevation(trajectoryData), I(100), 0, FALSE, 10)

\* generateTestData(startTime, timeInterval, pointsCount) with the outcomes
\* steps of its random draws.  Without points, reliefData[0].elevation
\* throws.
GenerateTestData(startTime, timeInterval, pointsCount, steps) ==
  LET reliefData == ReliefData(startTime, timeInterval, pointsCount, steps)
      trajectoryData == TrajectoryData(reliefData, timeInterval, pointsCount)
      args == [startTime |-> startTime, timeInterval |-> timeInterval,
               pointsCount |-> pointsCount]
  IN  /\ pc = "idle"
      /\ IF pointsCount = 0
           THEN /\ Finish([Ctx(ctx) EXCEPT !.err = "TypeError"],
                          "generateTestData", NoOp)
                /\ out' = [args |-> args]
           ELSE /\ Finish(Ctx(ctx), "generateTestData", NoOp)
                /\ out' = [args |-> args,
                           reliefData |-> reliefData,
                           trajectoryData |-> trajectoryData,
                           xScale |-> TestDataXScale(startTime, timeInterval,
                                                     pointsCount),
                           yScale |-> TestDataYScale(trajectoryData)]

\* Start times and time intervals: those of the host component (0 and 30),
\* and others.
StartTimes == {I(0), I(5)}

TimeIntervals == {I(0), I(1), I(30)}

NextTestData ==
  \/ pc = "idle" /\ \E startTime \in StartTimes, timeInterval \in TimeIntervals,
                        pointsCount \in 0..MaxPointsCount :
       \E steps \in [1..pointsCount -> RandomSteps] :
         GenerateTestData(startTime, timeInterval, pointsCount, steps)
  \/ Forget

SpecTestData == InitHost /\ [][NextTestData]_vars

(***************************************************************************)
(* Properties of the generated test data.                                  *)
(***************************************************************************)
Generated == op.name = "generateTestData" /\ err = ""

\* The arguments are those the data is specified for.
ValidTestArgs == out.args.pointsCount >= 1 /\ Gt(out.args.timeInterval, I(0))

\* Both sequences have pointsCount points, with the same times, strictly
\* increasing.
TimesWellFormed ==
  /\ Len(out.reliefData) = out.args.pointsCount
  /\ Len(out.trajectoryData) = out.args.pointsCount
  /\ \A i \in 1..out.args.pointsCount :
       out.trajectoryData[i].time = out.reliefData[i].time
  /\ \A i \in 1..(out.args.pointsCount - 1) :
       Lt(out.reliefData[i].time, out.reliefData[i + 1].time)

\* Every trajectory point is at least 10 above the relief point under it.
TrajectoryAboveRelief ==
  \A i \in 1..out.args.pointsCount :
    Ge(out.trajectoryData[i].elevation,
       Add(out.reliefData[i].elevation, I(10)))

InsideScales(point) ==
  /\ Le(out.xScale.min, point.time) /\ Le(point.time, out.xScale.max)
  /\ Le(out.yScale.min, point.elevation)
  /\ Le(point.elevation, out.yScale.max)

AllInsideScales ==
  \A i \in 1..out.args.pointsCount :
    InsideScales(out.reliefData[i]) /\ InsideScales(out.trajectoryData[i])

\* C24: for pointsCount >= 1, timeInterval > 0 and every outcome of the
\* random draws, generateTestData returns relief and trajectory sequences of
\* length pointsCount with identical, strictly increasing times, every
\* trajectory elevation at least the relief elevation plus 10, and every
\* generated point inside the returned scales.
C24_TestDataWellFormed ==
  (Generated /\ ValidTestArgs)
    => TimesWellFormed /\ TrajectoryAboveRelief /\ AllInsideScales

\* The same for an odd pointsCount.
TestDataWellFormedForOddCount ==
  (Generated /\ ValidTestArgs /\ out.args.pointsCount % 2 = 1)
    => TimesWellFormed /\ TrajectoryAboveRelief /\ AllInsideScales

\* The times are well formed for every pointsCount.
TestDataTimesWellFormed ==
  (Generated /\ ValidTestArgs) => TimesWellFormed

\* For an even pointsCount the trajectory point in the middle has no
\* elevation, and the vertical scale no maximum.
MiddleNotANumber ==
  /\ Generated /\ ValidTestArgs
  /\ out.args.pointsCount = 2
  /\ IsNaN(out.trajectoryData[2].elevation)
  /\ IsFinite(out.trajectoryData[1].elevation)
  /\ IsNaN(out.yScale.max)

\* Five points have been generated with the relief pushed down to 0 at the
\* last one, and the trajectory is 10 above the relief everywhere.
OddCountWitness ==
  /\ Generated /\ ValidTestArgs
  /\ out.args.pointsCount = 5
  /\ out.reliefData[5].elevation = I(0)
  /\ \A i \in 1..5 :
       out.trajectoryData[i].elevation
         = Add(out.reliefData[i].elevation, I(10))

====
